---- MODULE Spec2Model ----
(***************************************************************************)
(* The resume-screening simulator of src/src/App.tsx as a state machine.   *)
(*                                                                         *)
(* Strings are sequences of Unicode code points, so that trimming, case    *)
(* folding, splitting, substring search and the regular expressions of the *)
(* source are computed character by character.  JavaScript numbers are     *)
(* modelled as exact rationals <<numerator, denominator>>.                 *)
(***************************************************************************)
EXTENDS Integers, Sequences, FiniteSets, TLC

\* ------------------------------------------------------------------------
\* Exact rational arithmetic (the model of JavaScript's number type)
\* ------------------------------------------------------------------------

Abs(n) == IF n < 0 THEN -n ELSE n

RECURSIVE GCD(_, _)
GCD(a, b) == IF b = 0 THEN a ELSE GCD(b, a % b)

\* The greatest common divisor of n and d with the sign of d.
SignedGCD(n, d) == (IF d < 0 THEN -1 ELSE 1) * GCD(Abs(n), Abs(d))

\* n/d with the common factor g divided out.
Reduced(n, d, g) == <<n \div g, d \div g>>

\* The rational n/d in lowest terms with a positive denominator.
Rat(n, d) == Reduced(n, d, SignedGCD(n, d))

Num(i) == <<i, 1>>

\* x + y over the least common denominator; g is the greatest common divisor
\* of the two denominators.
Plus(x, y, g) ==
  Rat(x[1] * (y[2] \div g) + y[1] * (x[2] \div g), (x[2] \div g) * y[2])

\* Sums go through the least common denominator to keep the integers small.
RAdd(x, y) == Plus(x, y, GCD(x[2], y[2]))

RNeg(x) == <<-x[1], x[2]>>

RSub(x, y) == RAdd(x, RNeg(y))

\* The product of two fractions, numerators and denominators multiplied.
Times(a, b) == <<a[1] * b[1], a[2] * b[2]>>

\* Products cancel crosswise before multiplying.
RMul(x, y) == Times(Rat(x[1], y[2]), Rat(y[1], x[2]))

RDiv(x, y) == RMul(x, Rat(y[2], y[1]))

\* x < y, by cross-multiplication (the denominators are positive).
RLess(x, y) == x[1] * y[2] < y[1] * x[2]

RLeq(x, y) == ~RLess(y, x)

\* Math.min / Math.max on two numbers.
MathMin(x, y) == IF RLess(y, x) THEN y ELSE x

MathMax(x, y) == IF RLess(x, y) THEN y ELSE x

\* Math.round on the quotient n/d of two non-negative integers: halves round up.
MathRoundDiv(n, d) == (2 * n + d) \div (2 * d)

\* A clamp that forgets the upper and lower limits.
clampUnbounded(value) == value

\* const clamp = (value, min = 0, max = 100) => Math.min(max, Math.max(min, value))
clamp(value) == MathMin(Num(100), MathMax(Num(0), value))

\* ------------------------------------------------------------------------
\* Characters and strings
\* ------------------------------------------------------------------------

\* \d of a JavaScript regular expression.
IsDigit(c) == c >= 48 /\ c <= 57

\* \w of a JavaScript regular expression: [A-Za-z0-9_].
IsWordChar(c) ==
  \/ IsDigit(c)
  \/ (c >= 65 /\ c <= 90)
  \/ (c >= 97 /\ c <= 122)
  \/ c = 95

\* \s of a JavaScript regular expression, which is also what trim() removes.
IsSpace(c) ==
  \/ c \in {9, 10, 11, 12, 13, 32, 160, 5760, 8232, 8233, 8239, 8287, 12288, 65279}
  \/ (c >= 8192 /\ c <= 8202)

\* String.prototype.toLowerCase, one code point at a time.
LowerChar(c) == IF c >= 65 /\ c <= 90 THEN c + 32 ELSE c

toLowerCase(s) ==
  LET lower == [i \in 1..Len(s) |-> LowerChar(s[i])]
  IN  SubSeq(lower, 1, Len(s))

\* String.prototype.trim.
trim(s) ==
  LET keep == {i \in 1..Len(s) : ~IsSpace(s[i])}
  IN  IF keep = {} THEN <<>>
      ELSE LET lo == CHOOSE i \in keep : \A j \in keep : i <= j
               hi == CHOOSE i \in keep : \A j \in keep : j <= i
           IN  SubSeq(s, lo, hi)

\* value.replace(/\W/g, ''): the word characters of s, in order.
StripNonWord(s) == SelectSeq(s, IsWordChar)

\* Whether k occurs in t at offset p (the characters t[p+1] .. t[p+Len(k)]).
MatchAt(t, k, p) ==
  /\ p + Len(k) <= Len(t)
  /\ \A j \in 1..Len(k) : t[p + j] = k[j]

\* String.prototype.includes.
includes(t, k) == \E p \in 0..(Len(t) - Len(k)) : MatchAt(t, k, p)

\* \b of a regular expression at offset p: exactly one of the characters on
\* either side of the offset is a word character (the ends count as non-word).
WordBoundary(t, p) ==
  LET before == p >= 1 /\ IsWordChar(t[p])
      after == p < Len(t) /\ IsWordChar(t[p + 1])
  IN  before # after

\* new RegExp(`\\b${w}\\b`, 'i').test(t) for a lowercased t and a lowercased w
\* made of word characters only (so that w holds no regex metacharacter).
TestWordBounded(t, w) ==
  \E p \in 0..(Len(t) - Len(w)) :
    /\ WordBoundary(t, p)
    /\ MatchAt(t, w, p)
    /\ WordBoundary(t, p + Len(w))

\* Whether character c is of the class \d, \w, \s or \S of a regular expression.
InClass(c, class) ==
  CASE class = "\\d" -> IsDigit(c)
    [] class = "\\w" -> IsWordChar(c)
    [] class = "\\s" -> IsSpace(c)
    [] class = "\\S" -> ~IsSpace(c)

\* The last position of the run of characters of the class that starts at
\* position i of t.
RunEnd(t, i, class) ==
  CHOOSE j \in i..Len(t) :
    /\ \A k \in i..j : InClass(t[k], class)
    /\ (j = Len(t) \/ ~InClass(t[j + 1], class))

\* The positions at which a maximal run of characters of the class starts.
RunStarts(t, class) ==
  {i \in 1..Len(t) : InClass(t[i], class) /\ (i = 1 \/ ~InClass(t[i - 1], class))}

\* t.split(/\W+/).filter(Boolean), as the set of its elements: the maximal runs
\* of word characters.  The source only asks this array whether it includes a
\* string.
Tokens(t) == {SubSeq(t, i, RunEnd(t, i, "\\w")) : i \in RunStarts(t, "\\w")}

\* text.split(/\s+/).filter(Boolean).length
CountWords(text) == Cardinality(RunStarts(text, "\\S"))

\* The string literals of the source, as code points.
sJavascript == <<106, 97, 118, 97, 115, 99, 114, 105, 112, 116>>  \* "javascript"
sJs == <<106, 115>>  \* "js"
sTypescript == <<116, 121, 112, 101, 115, 99, 114, 105, 112, 116>>  \* "typescript"
sTs == <<116, 115>>  \* "ts"
sReact == <<114, 101, 97, 99, 116>>  \* "react"
sReactDotJs == <<114, 101, 97, 99, 116, 46, 106, 115>>  \* "react.js"
sReactjs == <<114, 101, 97, 99, 116, 106, 115>>  \* "reactjs"
sNode == <<110, 111, 100, 101>>  \* "node"
sNodejs == <<110, 111, 100, 101, 106, 115>>  \* "nodejs"
sAccessibility == <<97, 99, 99, 101, 115, 115, 105, 98, 105, 108, 105, 116, 121>>  \* "accessibility"
sA11y == <<97, 49, 49, 121>>  \* "a11y"
sInclusive == <<105, 110, 99, 108, 117, 115, 105, 118, 101>>  \* "inclusive"
sDotPdf == <<46, 112, 100, 102>>  \* ".pdf"
sYear == <<121, 101, 97, 114>>  \* "year"

\* const keywordSynonyms: Record<string, string[]>, looked up by the normalized
\* keyword; a keyword that is no key of the table has no synonyms (?? []).
keywordSynonyms(normalized) ==
  CASE normalized = sJavascript -> {sJs}
    [] normalized = sTypescript -> {sTs}
    [] normalized = sReact -> {sReactDotJs, sReactjs}
    [] normalized = sNode -> {sNodejs}
    [] normalized = sAccessibility -> {sA11y, sInclusive}
    [] OTHER -> {}

\* The messages of the upload handlers and the initial values of the two
\* keyword fields, as code points.
\* 'Parsing PDF…' (the last code point is U+2026)
msgParsing ==
  <<80, 97, 114, 115, 105, 110, 103, 32, 80, 68, 70, 8230>>
\* "PDF parsed to text. Review and clean up any spacing."
msgParsed ==
  <<80, 68, 70, 32, 112, 97, 114, 115, 101, 100, 32, 116, 111, 32, 116, 101, 120, 116, 46, 32,
    82, 101, 118, 105, 101, 119, 32, 97, 110, 100, 32, 99, 108, 101, 97, 110, 32, 117, 112, 32,
    97, 110, 121, 32, 115, 112, 97, 99, 105, 110, 103, 46>>
\* "Could not parse PDF. Try exporting as .txt or simplify the layout."
msgFailed ==
  <<67, 111, 117, 108, 100, 32, 110, 111, 116, 32, 112, 97, 114, 115, 101, 32, 80, 68, 70, 46,
    32, 84, 114, 121, 32, 101, 120, 112, 111, 114, 116, 105, 110, 103, 32, 97, 115, 32, 46, 116,
    120, 116, 32, 111, 114, 32, 115, 105, 109, 112, 108, 105, 102, 121, 32, 116, 104, 101, 32,
    108, 97, 121, 111, 117, 116, 46>>
\* "Loaded text file into editor."
msgLoaded ==
  <<76, 111, 97, 100, 101, 100, 32, 116, 101, 120, 116, 32, 102, 105, 108, 101, 32, 105, 110,
    116, 111, 32, 101, 100, 105, 116, 111, 114, 46>>
\* "React, JavaScript, Python"
initialRequiredInput ==
  <<82, 101, 97, 99, 116, 44, 32, 74, 97, 118, 97, 83, 99, 114, 105, 112, 116, 44, 32, 80, 121,
    116, 104, 111, 110>>
\* "TypeScript, Node.js, Leadership, Agile Development"
initialPreferredInput ==
  <<84, 121, 112, 101, 83, 99, 114, 105, 112, 116, 44, 32, 78, 111, 100, 101, 46, 106, 115, 44,
    32, 76, 101, 97, 100, 101, 114, 115, 104, 105, 112, 44, 32, 65, 103, 105, 108, 101, 32, 68,
    101, 118, 101, 108, 111, 112, 109, 101, 110, 116>>
\* ------------------------------------------------------------------------
\* The pure functions of the source
\* ------------------------------------------------------------------------

\* value.split(','): the pieces between the commas, empty pieces included.
RECURSIVE SplitOnComma(_)
SplitOnComma(value) ==
  LET commas == {i \in 1..Len(value) : value[i] = 44}
  IN  IF commas = {} THEN <<value>>
      ELSE LET first == CHOOSE i \in commas : \A j \in commas : i <= j
           IN  <<SubSeq(value, 1, first - 1)>>
                 \o SplitOnComma(SubSeq(value, first + 1, Len(value)))

\* items.map((item) => item.trim())
MapTrim(items) ==
  LET trimmed == [i \in 1..Len(items) |-> trim(items[i])]
  IN  SubSeq(trimmed, 1, Len(items))

NonEmpty(item) == item # <<>>

\* splitKeywords without its .filter(Boolean): empty pieces stay in the list.
splitKeywordsUnfiltered(value) == MapTrim(SplitOnComma(value))

\* const splitKeywords = (value) => value.split(',').map(trim).filter(Boolean)
splitKeywords(value) == SelectSeq(MapTrim(SplitOnComma(value)), NonEmpty)

\* text.split(/\r?\n/): the pieces between the line feeds, each without the
\* carriage return that stands right before its line feed.
RECURSIVE SplitLines(_)
SplitLines(text) ==
  LET feeds == {i \in 1..Len(text) : text[i] = 10}
  IN  IF feeds = {} THEN <<text>>
      ELSE LET first == CHOOSE i \in feeds : \A j \in feeds : i <= j
               last == IF first > 1 /\ text[first - 1] = 13 THEN first - 2 ELSE first - 1
           IN  <<SubSeq(text, 1, last)>>
                 \o SplitLines(SubSeq(text, first + 1, Len(text)))

\* The heading tests of parseSections in the order of its if-chain:
\* /experience/i, /education/i, /skills/i, /summary/i.
sectionHeadings ==
  << [bucket |-> "experience", word |-> <<101, 120, 112, 101, 114, 105, 101, 110, 99, 101>>],
     [bucket |-> "education", word |-> <<101, 100, 117, 99, 97, 116, 105, 111, 110>>],
     [bucket |-> "skills", word |-> <<115, 107, 105, 108, 108, 115>>],
     [bucket |-> "summary", word |-> <<115, 117, 109, 109, 97, 114, 121>>] >>

\* The heading tests without the i flag of the regular expressions.
headingOfCaseSensitive(clean, current) ==
  LET hits == {h \in 1..Len(sectionHeadings) : includes(clean, sectionHeadings[h].word)}
  IN  IF hits = {} THEN current
      ELSE sectionHeadings[CHOOSE h \in hits : \A g \in hits : h <= g].bucket

\* The heading tests as four separate ifs without else: the last test that
\* matches sets current.
headingOfLastMatch(clean, current) ==
  LET hits == {h \in 1..Len(sectionHeadings) :
                 includes(toLowerCase(clean), sectionHeadings[h].word)}
  IN  IF hits = {} THEN current
      ELSE sectionHeadings[CHOOSE h \in hits : \A g \in hits : h >= g].bucket

\* if (/experience/i.test(clean)) current = 'experience'; else if ... : the
\* value of current after the tests on the line clean.
headingOf(clean, current) ==
  LET hits == {h \in 1..Len(sectionHeadings) :
                 includes(toLowerCase(clean), sectionHeadings[h].word)}
  IN  IF hits = {} THEN current
      ELSE sectionHeadings[CHOOSE h \in hits : \A g \in hits : h <= g].bucket

\* lines.forEach((line) => { ... }) from the line at position i on, with the
\* values of current and buckets before that line.
RECURSIVE forEachLine(_, _, _, _)
forEachLine(lines, i, current, buckets) ==
  IF i > Len(lines) THEN buckets
  ELSE IF trim(lines[i]) = <<>> THEN forEachLine(lines, i + 1, current, buckets)
  ELSE forEachLine(lines, i + 1, headingOf(trim(lines[i]), current),
                   [buckets EXCEPT ![headingOf(trim(lines[i]), current)] =
                      Append(@, trim(lines[i]))])

\* const parseSections = (text) => ...
parseSections(text) ==
  forEachLine(SplitLines(text), 1, "summary",
              [summary |-> <<>>, experience |-> <<>>, education |-> <<>>,
               skills |-> <<>>, other |-> <<>>])

\* The value of a string of decimal digits.
RECURSIVE DigitsValue(_)
DigitsValue(digits) ==
  IF digits = <<>> THEN 0
  ELSE DigitsValue(SubSeq(digits, 1, Len(digits) - 1)) * 10 + (digits[Len(digits)] - 48)

\* Number.isNaN(parseInt(m, 10)) for a string without leading blanks or sign:
\* parseInt gives NaN exactly when the string does not start with a digit.
ParsesToNaN(m) == m = <<>> \/ ~IsDigit(m[1])

\* parseInt(m, 10) where it is a number: the value of the leading digits.
parseInt(m) == DigitsValue(SubSeq(m, 1, RunEnd(m, 1, "\\d")))

\* matches.map((m) => parseInt(m, 10)).filter((n) => !Number.isNaN(n)), as a set.
ParsedValues(matches) == {parseInt(m) : m \in {mm \in matches : ~ParsesToNaN(mm)}}

\* \+? after position e of the text: the position the regular expression has
\* consumed up to.
SkipPlus(text, e) == IF e < Len(text) /\ text[e + 1] = 43 THEN e + 1 ELSE e

\* \s+ after position p of the text: the last position of the run of white
\* space, or 0 when no white space follows.
SkipSpaces(text, p) ==
  IF p < Len(text) /\ IsSpace(text[p + 1]) THEN RunEnd(text, p + 1, "\\s") ELSE 0

\* years? after position q of the text, without regard to case: the last
\* position of the word, or 0 when it does not follow (or q is 0).
SkipYears(text, q) ==
  LET r == q + Len(sYear)
  IN  IF q = 0 \/ r > Len(text) THEN 0
      ELSE IF \E j \in 1..Len(sYear) : LowerChar(text[q + j]) # sYear[j] THEN 0
      ELSE IF r < Len(text) /\ LowerChar(text[r + 1]) = 115 THEN r + 1
      ELSE r

\* Where a match of /(\d+)\+?\s+years?/i that starts with the digit run at
\* position i ends, or 0 when there is no match there.  Each quantifier is
\* greedy, and no backtracking can succeed: a shorter \d+ is followed by a
\* digit, a skipped "+" or a shorter \s+ by a character that is no "y".
YearsMatchEnd(text, i) ==
  SkipYears(text, SkipSpaces(text, SkipPlus(text, RunEnd(text, i, "\\d"))))

\* text.match(/(\d+)\+?\s+years?/gi), as the set of the matched strings (null
\* is the empty set).  A match can only start where a run of digits starts: a
\* match tried inside a run fails wherever the one from its start fails, and
\* the previous match ends in a letter.
YearsMatches(text) ==
  {SubSeq(text, i, YearsMatchEnd(text, i)) :
     i \in {k \in RunStarts(text, "\\d") : YearsMatchEnd(text, k) # 0}}

SetMax(S) == CHOOSE v \in S : \A w \in S : w <= v

\* The estimator without the Math.max(1, ...) of its fallback.
detectYearsNoFloor(text) ==
  LET matches == YearsMatches(text)
      values == ParsedValues(matches)
  IN  IF matches # {} /\ values # {} THEN SetMax(values)
      ELSE MathRoundDiv(CountWords(text), 120)

\* The estimator returning the smallest mention instead of the largest.
detectYearsMin(text) ==
  LET matches == YearsMatches(text)
      values == ParsedValues(matches)
  IN  IF matches # {} /\ values # {}
        THEN CHOOSE v \in values : \A w \in values : v <= w
      ELSE LET rounded == MathRoundDiv(CountWords(text), 120)
           IN  IF rounded < 1 THEN 1 ELSE rounded

\* const detectYearsOfExperience = (text) => ...
detectYearsOfExperience(text) ==
  LET matches == YearsMatches(text)
      values == ParsedValues(matches)
  IN  IF matches # {} /\ values # {} THEN SetMax(values)
      ELSE LET wordCount == CountWords(text)
               rounded == MathRoundDiv(wordCount, 120)
           IN  IF rounded < 1 THEN 1 ELSE rounded

\* findKeyword matching by substring at every strictness.
findKeywordLoose(keyword, lowerResume, strictness) ==
  LET normalized == toLowerCase(trim(keyword))
  IN  normalized # <<>> /\ includes(lowerResume, normalized)

\* findKeyword without the synonym table.
findKeywordNoSynonyms(keyword, lowerResume, strictness) ==
  LET normalized == toLowerCase(trim(keyword))
      stripped == StripNonWord(normalized)
      tokenHit == stripped \in Tokens(lowerResume)
  IN  IF normalized = <<>> THEN FALSE
      ELSE IF strictness >= 70
        THEN tokenHit \/ TestWordBounded(lowerResume, stripped)
      ELSE tokenHit \/ includes(lowerResume, normalized)

\* const findKeyword = (keyword) => ...   (lowerResume and keywordStrictness
\* are the component's values the closure reads)
findKeyword(keyword, lowerResume, strictness) ==
  LET normalized == toLowerCase(trim(keyword))
      tokens == Tokens(lowerResume)
      synonymHits == \E syn \in keywordSynonyms(normalized) : includes(lowerResume, syn)
      stripped == StripNonWord(normalized)
      exact == TestWordBounded(lowerResume, stripped)
      tokenHit == stripped \in tokens
  IN  IF normalized = <<>> THEN FALSE
      ELSE IF strictness >= 70 THEN tokenHit \/ exact
      ELSE tokenHit \/ synonymHits \/ includes(lowerResume, normalized)

\* ------------------------------------------------------------------------
\* The sample resumes of the source
\* ------------------------------------------------------------------------

\* const defaultResume (the template literal, 181 words)
defaultResume ==
  <<74, 111, 104, 110, 32, 67, 97, 114, 116, 101, 114, 10, 83, 101, 110, 105, 111, 114, 32, 70,
    114, 111, 110, 116, 101, 110, 100, 32, 69, 110, 103, 105, 110, 101, 101, 114, 10, 83, 101,
    97, 116, 116, 108, 101, 44, 32, 87, 65, 32, 8226, 32, 106, 111, 104, 110, 46, 99, 97, 114,
    116, 101, 114, 64, 101, 109, 97, 105, 108, 46, 99, 111, 109, 32, 8226, 32, 53, 53, 53, 45,
    49, 48, 49, 45, 50, 48, 50, 48, 10, 10, 83, 117, 109, 109, 97, 114, 121, 10, 70, 114, 111,
    110, 116, 101, 110, 100, 32, 101, 110, 103, 105, 110, 101, 101, 114, 32, 102, 111, 99, 117,
    115, 101, 100, 32, 111, 110, 32, 105, 110, 99, 108, 117, 115, 105, 118, 101, 32, 112, 114,
    111, 100, 117, 99, 116, 115, 32, 97, 110, 100, 32, 97, 99, 99, 101, 115, 115, 105, 98, 108,
    101, 32, 100, 101, 115, 105, 103, 110, 32, 115, 121, 115, 116, 101, 109, 115, 46, 32, 80, 97,
    114, 116, 110, 101, 114, 32, 116, 111, 32, 112, 114, 111, 100, 117, 99, 116, 32, 97, 110,
    100, 32, 114, 101, 115, 101, 97, 114, 99, 104, 32, 119, 105, 116, 104, 32, 97, 32, 116, 114,
    97, 99, 107, 32, 114, 101, 99, 111, 114, 100, 32, 111, 102, 32, 115, 104, 105, 112, 112, 105,
    110, 103, 32, 102, 101, 97, 116, 117, 114, 101, 115, 32, 116, 104, 97, 116, 32, 108, 105,
    102, 116, 32, 99, 111, 110, 118, 101, 114, 115, 105, 111, 110, 32, 97, 110, 100, 32, 114,
    101, 100, 117, 99, 101, 32, 102, 114, 105, 99, 116, 105, 111, 110, 32, 102, 111, 114, 32,
    117, 110, 100, 101, 114, 45, 114, 101, 112, 114, 101, 115, 101, 110, 116, 101, 100, 32, 117,
    115, 101, 114, 115, 46, 10, 10, 69, 120, 112, 101, 114, 105, 101, 110, 99, 101, 10, 83, 101,
    110, 105, 111, 114, 32, 70, 114, 111, 110, 116, 101, 110, 100, 32, 69, 110, 103, 105, 110,
    101, 101, 114, 32, 8212, 32, 70, 105, 110, 99, 104, 32, 8226, 32, 50, 48, 50, 49, 32, 45, 32,
    80, 114, 101, 115, 101, 110, 116, 10, 45, 32, 76, 101, 100, 32, 109, 105, 103, 114, 97, 116,
    105, 111, 110, 32, 102, 114, 111, 109, 32, 67, 114, 101, 97, 116, 101, 32, 82, 101, 97, 99,
    116, 32, 65, 112, 112, 32, 116, 111, 32, 86, 105, 116, 101, 44, 32, 99, 117, 116, 116, 105,
    110, 103, 32, 98, 117, 105, 108, 100, 32, 116, 105, 109, 101, 115, 32, 98, 121, 32, 54, 56,
    37, 32, 97, 110, 100, 32, 76, 105, 103, 104, 116, 104, 111, 117, 115, 101, 32, 114, 101, 103,
    114, 101, 115, 115, 105, 111, 110, 115, 32, 98, 121, 32, 52, 48, 37, 46, 10, 45, 32, 66, 117,
    105, 108, 116, 32, 97, 32, 98, 105, 97, 115, 45, 97, 117, 100, 105, 116, 105, 110, 103, 32,
    85, 73, 32, 102, 111, 114, 32, 99, 97, 110, 100, 105, 100, 97, 116, 101, 32, 114, 101, 118,
    105, 101, 119, 32, 116, 104, 97, 116, 32, 115, 117, 114, 102, 97, 99, 101, 100, 32, 117, 110,
    100, 101, 114, 45, 114, 101, 112, 114, 101, 115, 101, 110, 116, 101, 100, 32, 112, 105, 112,
    101, 108, 105, 110, 101, 115, 59, 32, 105, 110, 99, 114, 101, 97, 115, 101, 100, 32, 112, 97,
    115, 115, 45, 116, 104, 114, 111, 117, 103, 104, 32, 114, 97, 116, 101, 115, 32, 98, 121, 32,
    49, 56, 37, 46, 10, 45, 32, 67, 111, 97, 99, 104, 101, 100, 32, 52, 32, 101, 110, 103, 105,
    110, 101, 101, 114, 115, 32, 111, 110, 32, 84, 121, 112, 101, 83, 99, 114, 105, 112, 116, 44,
    32, 116, 101, 115, 116, 105, 110, 103, 44, 32, 97, 110, 100, 32, 112, 101, 114, 102, 111,
    114, 109, 97, 110, 99, 101, 32, 112, 114, 111, 102, 105, 108, 105, 110, 103, 59, 32, 105,
    110, 116, 114, 111, 100, 117, 99, 101, 100, 32, 115, 116, 111, 114, 121, 45, 100, 114, 105,
    118, 101, 110, 32, 118, 105, 115, 117, 97, 108, 32, 116, 101, 115, 116, 115, 46, 10, 10, 80,
    114, 111, 100, 117, 99, 116, 32, 69, 110, 103, 105, 110, 101, 101, 114, 32, 8212, 32, 76,
    117, 109, 101, 110, 32, 76, 97, 98, 115, 32, 8226, 32, 50, 48, 49, 56, 32, 45, 32, 50, 48,
    50, 49, 10, 45, 32, 83, 104, 105, 112, 112, 101, 100, 32, 109, 117, 108, 116, 105, 45, 116,
    101, 110, 97, 110, 116, 32, 100, 101, 115, 105, 103, 110, 32, 115, 121, 115, 116, 101, 109,
    32, 99, 111, 109, 112, 111, 110, 101, 110, 116, 115, 32, 117, 115, 101, 100, 32, 98, 121, 32,
    55, 32, 116, 101, 97, 109, 115, 59, 32, 114, 101, 100, 117, 99, 101, 100, 32, 85, 73, 32,
    100, 101, 102, 101, 99, 116, 115, 32, 98, 121, 32, 51, 50, 37, 46, 10, 45, 32, 80, 97, 114,
    116, 110, 101, 114, 101, 100, 32, 119, 105, 116, 104, 32, 114, 101, 99, 114, 117, 105, 116,
    105, 110, 103, 32, 116, 111, 32, 112, 114, 111, 116, 111, 116, 121, 112, 101, 32, 97, 32,
    102, 97, 105, 114, 45, 115, 99, 114, 101, 101, 110, 105, 110, 103, 32, 102, 108, 111, 119,
    59, 32, 97, 100, 100, 101, 100, 32, 115, 101, 109, 97, 110, 116, 105, 99, 32, 107, 101, 121,
    119, 111, 114, 100, 32, 109, 97, 116, 99, 104, 105, 110, 103, 32, 97, 110, 100, 32, 114, 101,
    100, 117, 99, 101, 100, 32, 102, 97, 108, 115, 101, 32, 110, 101, 103, 97, 116, 105, 118,
    101, 115, 32, 98, 121, 32, 50, 50, 37, 46, 10, 45, 32, 73, 109, 112, 108, 101, 109, 101, 110,
    116, 101, 100, 32, 97, 99, 99, 101, 115, 115, 105, 98, 105, 108, 105, 116, 121, 32, 115, 119,
    101, 101, 112, 115, 32, 119, 105, 116, 104, 32, 97, 120, 101, 45, 99, 111, 114, 101, 32, 97,
    110, 100, 32, 107, 101, 121, 98, 111, 97, 114, 100, 32, 116, 114, 97, 112, 115, 59, 32, 112,
    97, 115, 115, 101, 100, 32, 87, 67, 65, 71, 32, 50, 46, 49, 32, 65, 65, 32, 97, 117, 100,
    105, 116, 115, 46, 10, 10, 69, 100, 117, 99, 97, 116, 105, 111, 110, 10, 85, 110, 105, 118,
    101, 114, 115, 105, 116, 121, 32, 111, 102, 32, 87, 97, 115, 104, 105, 110, 103, 116, 111,
    110, 32, 8212, 32, 66, 46, 83, 46, 32, 67, 111, 109, 112, 117, 116, 101, 114, 32, 83, 99,
    105, 101, 110, 99, 101, 44, 32, 50, 48, 49, 56, 10, 10, 83, 107, 105, 108, 108, 115, 10, 82,
    101, 97, 99, 116, 44, 32, 84, 121, 112, 101, 83, 99, 114, 105, 112, 116, 44, 32, 78, 111,
    100, 101, 46, 106, 115, 44, 32, 86, 105, 116, 101, 44, 32, 65, 99, 99, 101, 115, 115, 105,
    98, 105, 108, 105, 116, 121, 44, 32, 68, 101, 115, 105, 103, 110, 32, 83, 121, 115, 116, 101,
    109, 115, 44, 32, 71, 114, 97, 112, 104, 81, 76, 44, 32, 83, 116, 111, 114, 121, 98, 111,
    111, 107, 44, 32, 68, 97, 116, 97, 32, 86, 105, 115, 117, 97, 108, 105, 122, 97, 116, 105,
    111, 110, 10>>

\* const shortResume (the template literal, 57 words)
shortResume ==
  <<75, 101, 110, 121, 97, 32, 76, 101, 119, 105, 115, 10, 80, 114, 111, 100, 117, 99, 116, 32,
    68, 101, 115, 105, 103, 110, 101, 114, 10, 65, 117, 115, 116, 105, 110, 44, 32, 84, 88, 32,
    8226, 32, 107, 101, 110, 121, 97, 46, 108, 101, 119, 105, 115, 64, 101, 109, 97, 105, 108,
    46, 99, 111, 109, 32, 8226, 32, 53, 53, 53, 45, 53, 53, 53, 45, 51, 51, 51, 51, 10, 10, 69,
    120, 112, 101, 114, 105, 101, 110, 99, 101, 10, 80, 114, 111, 100, 117, 99, 116, 32, 68, 101,
    115, 105, 103, 110, 101, 114, 32, 8212, 32, 82, 105, 118, 101, 114, 32, 8226, 32, 50, 48, 50,
    50, 32, 45, 32, 80, 114, 101, 115, 101, 110, 116, 10, 45, 32, 82, 101, 100, 101, 115, 105,
    103, 110, 101, 100, 32, 111, 110, 98, 111, 97, 114, 100, 105, 110, 103, 32, 105, 110, 32, 54,
    32, 119, 101, 101, 107, 115, 59, 32, 108, 105, 102, 116, 101, 100, 32, 97, 99, 116, 105, 118,
    97, 116, 105, 111, 110, 32, 98, 121, 32, 49, 52, 37, 46, 10, 45, 32, 83, 104, 105, 112, 112,
    101, 100, 32, 114, 101, 115, 112, 111, 110, 115, 105, 118, 101, 32, 99, 111, 109, 112, 111,
    110, 101, 110, 116, 32, 108, 105, 98, 114, 97, 114, 121, 32, 105, 110, 32, 70, 105, 103, 109,
    97, 32, 43, 32, 82, 101, 97, 99, 116, 32, 104, 97, 110, 100, 111, 102, 102, 46, 10, 10, 69,
    100, 117, 99, 97, 116, 105, 111, 110, 10, 80, 97, 114, 115, 111, 110, 115, 32, 83, 99, 104,
    111, 111, 108, 32, 111, 102, 32, 68, 101, 115, 105, 103, 110, 32, 8212, 32, 66, 70, 65, 32,
    68, 101, 115, 105, 103, 110, 32, 38, 32, 84, 101, 99, 104, 110, 111, 108, 111, 103, 121, 10,
    10, 83, 107, 105, 108, 108, 115, 10, 85, 88, 32, 82, 101, 115, 101, 97, 114, 99, 104, 44, 32,
    80, 114, 111, 116, 111, 116, 121, 112, 105, 110, 103, 44, 32, 70, 105, 103, 109, 97, 44, 32,
    73, 110, 99, 108, 117, 115, 105, 118, 101, 32, 87, 114, 105, 116, 105, 110, 103, 44, 32, 65,
    99, 99, 101, 115, 115, 105, 98, 105, 108, 105, 116, 121, 10>>

\* ------------------------------------------------------------------------
\* Inputs: the texts a user types, the files a user uploads and the values a
\* user enters
\* ------------------------------------------------------------------------

\* "I used React."
txtReact ==
  <<73, 32, 117, 115, 101, 100, 32, 82, 101, 97, 99, 116, 46>>

\* "I used reaction timing."
txtReaction ==
  <<73, 32, 117, 115, 101, 100, 32, 114, 101, 97, 99, 116, 105, 111, 110, 32, 116, 105, 109, 105,
    110, 103, 46>>

\* "a11y"
txtA11y ==
  <<97, 49, 49, 121>>

\* "5 years of experience, previously 3 years"
txtYears ==
  <<53, 32, 121, 101, 97, 114, 115, 32, 111, 102, 32, 101, 120, 112, 101, 114, 105, 101, 110, 99,
    101, 44, 32, 112, 114, 101, 118, 105, 111, 117, 115, 108, 121, 32, 51, 32, 121, 101, 97, 114,
    115>>

\* "0 years"
txtZeroYears ==
  <<48, 32, 121, 101, 97, 114, 115>>

\* "Grade C in French."
txtGradeC ==
  <<71, 114, 97, 100, 101, 32, 67, 32, 105, 110, 32, 70, 114, 101, 110, 99, 104, 46>>

\* "Experience\n12+ Years React, JavaScript and Python."
txtSenior ==
  <<69, 120, 112, 101, 114, 105, 101, 110, 99, 101, 10, 49, 50, 43, 32, 89, 101, 97, 114, 115,
    32, 82, 101, 97, 99, 116, 44, 32, 74, 97, 118, 97, 83, 99, 114, 105, 112, 116, 32, 97, 110,
    100, 32, 80, 121, 116, 104, 111, 110, 46>>

\* The empty text (the textarea cleared).
txtEmpty == <<>>

\* A text of 180 one-letter words separated by single blanks, without a digit.
txt180 ==
  LET chars == [i \in 1..359 |-> IF i % 2 = 1 THEN 119 ELSE 32]
  IN  SubSeq(chars, 1, 359)

\* "  Jane Roe \r\n\r\nSKILLS & Experience\nReact\n \t \n education \r\nBSc\nSummary\nok"
txtSections ==
  <<32, 32, 74, 97, 110, 101, 32, 82, 111, 101, 32, 13, 10, 13, 10, 83, 75, 73, 76, 76, 83, 32,
    38, 32, 69, 120, 112, 101, 114, 105, 101, 110, 99, 101, 10, 82, 101, 97, 99, 116, 10, 32, 9,
    32, 10, 32, 101, 100, 117, 99, 97, 116, 105, 111, 110, 32, 13, 10, 66, 83, 99, 10, 83, 117,
    109, 109, 97, 114, 121, 10, 111, 107>>

\* "Education and Experience\nacme\nSkills summary\nreact\nsummary of Education\nbsc"
txtHeadings ==
  <<69, 100, 117, 99, 97, 116, 105, 111, 110, 32, 97, 110, 100, 32, 69, 120, 112, 101, 114, 105,
    101, 110, 99, 101, 10, 97, 99, 109, 101, 10, 83, 107, 105, 108, 108, 115, 32, 115, 117, 109,
    109, 97, 114, 121, 10, 114, 101, 97, 99, 116, 10, 115, 117, 109, 109, 97, 114, 121, 32, 111,
    102, 32, 69, 100, 117, 99, 97, 116, 105, 111, 110, 10, 98, 115, 99>>

\* A text of 240 one-letter words separated by single blanks, without a digit.
txtLong ==
  LET chars == [i \in 1..479 |-> IF i % 2 = 1 THEN 119 ELSE 32]
  IN  SubSeq(chars, 1, 479)

\* " , ,"
kwBlank ==
  <<32, 44, 32, 44>>

\* "Accessibility, ++"
kwA11y ==
  <<65, 99, 99, 101, 115, 115, 105, 98, 105, 108, 105, 116, 121, 44, 32, 43, 43>>

\* "C++"
kwCpp ==
  <<67, 43, 43>>

\* "I used"
fragIUsed ==
  <<73, 32, 117, 115, 101, 100>>

\* "React."
fragReactDot ==
  <<82, 101, 97, 99, 116, 46>>

\* "0 years"
fragZeroYears ==
  <<48, 32, 121, 101, 97, 114, 115>>
\* An uploaded PDF: its name and, per page, the items of the page's text
\* content.  An item without a str field is a marked-content item.
pdfOnePage ==
  [name |-> <<111, 110, 101, 46, 112, 100, 102>>,  \* "one.pdf"
   type |-> "application/pdf",
   pages |-> << <<[str |-> fragIUsed], [str |-> fragReactDot]>> >>]

pdfTwoPages ==
  [name |-> <<84, 87, 79, 46, 80, 68, 70>>,  \* "TWO.PDF"
   type |-> "",
   pages |-> << <<[str |-> txtA11y]>>,
                <<[type |-> "beginMarkedContent"], [str |-> fragZeroYears]>> >>]

\* An uploaded text file.
txtFile ==
  [name |-> <<114, 101, 115, 117, 109, 101, 46, 116, 120, 116>>,  \* "resume.txt"
   type |-> "text/plain", text |-> txtYears]

PdfFiles == {pdfOnePage, pdfTwoPages}

Files == PdfFiles \cup {txtFile}

\* The texts typed into the textarea.
TypedTexts ==
  {txtReact, txtReaction, txtA11y, txtYears, txtZeroYears, txtGradeC, txtSenior, txtEmpty,
   txtLong, txtSections, txtHeadings}

\* The texts typed while the score is explored.
ScoredTexts == {txtSenior, txt180}

\* The sample buttons.
Samples == {defaultResume, shortResume}

\* The values entered into the two keyword fields.
KeywordInputs == {initialRequiredInput, initialPreferredInput, kwBlank, kwA11y, kwCpp}

\* The values entered into the required field while the score is explored.
ScoredRequiredInputs == {initialRequiredInput, kwBlank}

\* The values entered into the preferred field.
PreferredInputs == {initialPreferredInput, kwBlank}

\* The texts typed while uploads are pending.
UploadTypedTexts == {txtSenior}

\* The positions of the strictness slider (min 30, max 100) that are explored.
StrictnessValues == {30, 69, 70, 100}

\* The positions of the strictness slider explored next to the other score controls.
ScoredStrictnessValues == {70, 100}

\* The positions of the minimum-years slider (min 0, max 15) that are explored.
MinYearsValues == {0, 2, 3}

\* The positions of the pass-threshold slider (min 40, max 90) that are explored.
PassThresholdValues == {40, 70, 90}

\* The numbers entered into the section-weight fields.
WeightEntries == {<<"skills", 150>>, <<"skills", 30>>}

\* ------------------------------------------------------------------------
\* The tables of the source
\* ------------------------------------------------------------------------

\* type FormatStyle = 'plain' | 'pdf' | 'table'
FormatStyles == {"plain", "pdf", "table"}

\* const formatProfiles: the penalty of each format style.
formatProfiles ==
  [plain |-> [penalty |-> 0], pdf |-> [penalty |-> 12], table |-> [penalty |-> 8]]

\* const nameBiasProfiles: the multiplier of each identity label.
nameBiasProfiles ==
  [John |-> Num(1), Demetrius |-> Rat(11, 100), Kenya |-> Rat(45, 100)]

\* Object.keys(nameBiasProfiles)
Names == DOMAIN nameBiasProfiles

\* const demographicBase: the four cohorts, in the order of the source.
demographicBase ==
  << [label |-> "White-sounding names", base |-> 85, sensitivity |-> Rat(3, 10)],
     [label |-> "Black-sounding names", base |-> 9, sensitivity |-> Rat(9, 10)],
     [label |-> "Female-coded names", base |-> 68, sensitivity |-> Rat(5, 10)],
     [label |-> "Hispanic-coded names", base |-> 14, sensitivity |-> Rat(7, 10)] >>

\* The sections that carry a weight.
Sections == {"experience", "skills", "education"}

\* useState of uploadMessage starts at null: held as a tuple that is no string
\* (no code point is negative), so that it compares with the messages.
null == <<-1>>

\* ------------------------------------------------------------------------
\* The component's render: every value App computes from its state
\* ------------------------------------------------------------------------

\* items.join(separator)
RECURSIVE Join(_, _)
Join(items, separator) ==
  IF items = <<>> THEN <<>>
  ELSE IF Len(items) = 1 THEN items[1]
  ELSE items[1] \o separator \o Join(Tail(items), separator)

\* content.items.map((item) => ('str' in item ? item.str : '')).join(' ')
PageText(items) ==
  Join([i \in 1..Len(items) |-> IF "str" \in DOMAIN items[i] THEN items[i].str ELSE <<>>],
       <<32>>)

\* pages.join('\n')
MergePages(pages) == Join(pages, <<10>>)

\* The text a PDF file yields when every step of its extraction succeeds.
ExtractedText(file) ==
  MergePages([p \in 1..Len(file.pages) |-> PageText(file.pages[p])])

\* Every text the resume can hold, and every keyword the two fields can hold.
ResumeTexts ==
  TypedTexts \cup ScoredTexts \cup UploadTypedTexts \cup Samples \cup {ExtractedText(f) : f \in PdfFiles} \cup {txtFile.text}

Keywords ==
  UNION {{splitKeywords(v)[i] : i \in 1..Len(splitKeywords(v))} : v \in KeywordInputs}

\* A function held as an enumerated table, so that no value of it is computed
\* a second time.
Tabulated(f) == f @@ f

\* The functions of the resume text, tabulated over the texts, keywords and
\* strictness values above.  TLC evaluates a constant definition once, so no
\* search of a text is repeated from state to state.
TextFacts ==
  Tabulated(
    [text \in ResumeTexts |->
       LET lowerResume == toLowerCase(text)
       IN  [sections |-> parseSections(text),
            wordCount |-> CountWords(text),
            yearsExperience |-> detectYearsOfExperience(text),
            found |-> Tabulated(
                        [keyword \in Keywords |->
                           Tabulated(
                             [strictness \in StrictnessValues |->
                                findKeyword(keyword, lowerResume, strictness)])])]])

\* The values the useMemo hooks hold after the first render of the state `in`;
\* `facts` is the entry of TextFacts for the resume text.
Memoized(in, facts) ==
  [parsedSections |-> facts.sections,
   requiredKeywords |-> splitKeywords(in.requiredInput),
   preferredKeywords |-> splitKeywords(in.preferredInput),
   wordCount |-> facts.wordCount,
   yearsExperience |-> facts.yearsExperience]

\* The useMemo of yearsExperience with an empty dependency list: the value of
\* the first render is kept for ever.
RememberedFromMount(in, was, old, facts) ==
  [parsedSections |->
     IF in.resumeText = was.resumeText THEN old.parsedSections ELSE facts.sections,
   requiredKeywords |->
     IF in.requiredInput = was.requiredInput THEN old.requiredKeywords
     ELSE splitKeywords(in.requiredInput),
   preferredKeywords |->
     IF in.preferredInput = was.preferredInput THEN old.preferredKeywords
     ELSE splitKeywords(in.preferredInput),
   wordCount |->
     IF in.resumeText = was.resumeText THEN old.wordCount ELSE facts.wordCount,
   yearsExperience |-> old.yearsExperience]

\* useMemo: a value is computed again only when one of its dependencies differs
\* from the previous render's; `was` is the previous state, `old` the previous
\* render.
Remembered(in, was, old, facts) ==
  [parsedSections |->
     IF in.resumeText = was.resumeText THEN old.parsedSections ELSE facts.sections,
   requiredKeywords |->
     IF in.requiredInput = was.requiredInput THEN old.requiredKeywords
     ELSE splitKeywords(in.requiredInput),
   preferredKeywords |->
     IF in.preferredInput = was.preferredInput THEN old.preferredKeywords
     ELSE splitKeywords(in.preferredInput),
   wordCount |->
     IF in.resumeText = was.resumeText THEN old.wordCount ELSE facts.wordCount,
   yearsExperience |->
     IF in.resumeText = was.resumeText THEN old.yearsExperience
     ELSE facts.yearsExperience]

\* finalScore >= passThreshold ? 'Pass' : 'Reject', with > in place of >=.
decideStrictly(finalScore, threshold) ==
  IF RLess(Num(threshold), finalScore) THEN "Pass" ELSE "Reject"

\* const decision = finalScore >= threshold ? 'Pass' : 'Reject'
decide(finalScore, threshold) ==
  IF RLeq(Num(threshold), finalScore) THEN "Pass" ELSE "Reject"

\* keywords.filter(findKeyword)
FilterFound(keywords, in, facts) ==
  LET hit(keyword) == facts.found[keyword][in.keywordStrictness]
  IN  SelectSeq(keywords, hit)

\* keywords.filter((kw) => !findKeyword(kw))
FilterMissing(keywords, in, facts) ==
  LET miss(keyword) == ~facts.found[keyword][in.keywordStrictness]
  IN  SelectSeq(keywords, miss)

\* The ratio of an empty list is 0 (no default).
ratioNoDefault(matches, keywords, default) ==
  IF Len(keywords) # 0 THEN Rat(Len(matches), Len(keywords)) ELSE Num(0)

\* keywords.length ? matches.length / keywords.length : default
ratio(matches, keywords, default) ==
  IF Len(keywords) # 0 THEN Rat(Len(matches), Len(keywords)) ELSE default

\* baseScore * nameBias with the multiplier applied after the penalties.
biasedLate(baseScore, nameBias, formatPenalty, shortPenalty) ==
  RMul(RSub(RSub(baseScore, Num(formatPenalty)), shortPenalty), nameBias)

\* baseScore * nameBias with the format penalty added, not subtracted.
biasedAddingFormat(baseScore, nameBias, formatPenalty, shortPenalty) ==
  RSub(RAdd(RMul(baseScore, nameBias), Num(formatPenalty)), shortPenalty)

\* baseScore / nameBias: the multiplier applied as a divisor.
biasedDividing(baseScore, nameBias, formatPenalty, shortPenalty) ==
  RSub(RSub(RDiv(baseScore, nameBias), Num(formatPenalty)), shortPenalty)

\* let adjustedScore = baseScore * nameBias; adjustedScore -= formatPenalty;
\* adjustedScore -= shortPenalty   (the value before the minimum-years penalty)
biased(baseScore, nameBias, formatPenalty, shortPenalty) ==
  RSub(RSub(RMul(baseScore, nameBias), Num(formatPenalty)), shortPenalty)

\* wordCount < 180 with <= in place of <.
isShortInclusive(wordCount) == wordCount <= 180

\* const isShort = wordCount < 180
isShort(wordCount) == wordCount < 180

\* The experience score dividing by minYears itself, without Math.max(1, ...):
\* a positive number divided by 0 is Infinity, and the minimum is then 100.
experienceScoreNoFloor(yearsExperience, years) ==
  IF years = 0 THEN Num(100)
  ELSE MathMin(Num(100), RMul(Rat(yearsExperience, years), Num(40)))

\* const experienceScore = Math.min(100, (yearsExperience / Math.max(1, minYears)) * 40)
experienceScore(yearsExperience, years) ==
  MathMin(Num(100), RMul(Rat(yearsExperience, IF years < 1 THEN 1 ELSE years), Num(40)))

\* The body of App from sectionWeightFactor to baseScore, for the state `in`,
\* the memoized values `memo` and the three filtered keyword lists.
Based(in, memo, requiredMatches, preferredMatches, missingRequired) ==
  LET sectionWeightFactor ==
        Rat(in.sectionWeights.experience * 5 + in.sectionWeights.skills * 3
              + in.sectionWeights.education * 2, 1000)
      requiredRatio == ratio(requiredMatches, memo.requiredKeywords, Num(1))
      preferredRatio == ratio(preferredMatches, memo.preferredKeywords, Rat(7, 10))
      strictnessModifier == RSub(Num(1), Rat(in.keywordStrictness - 60, 250))
      baseScore ==
        clamp(RMul(RAdd(RAdd(RAdd(RMul(requiredRatio, Num(60)),
                                  RMul(preferredRatio, Num(25))),
                             experienceScore(memo.yearsExperience, in.minYears)),
                        RMul(sectionWeightFactor, Num(15))),
                   strictnessModifier))
  IN  [parsedSections |-> memo.parsedSections,
       requiredKeywords |-> memo.requiredKeywords,
       preferredKeywords |-> memo.preferredKeywords,
       wordCount |-> memo.wordCount,
       isShort |-> isShort(memo.wordCount),
       yearsExperience |-> memo.yearsExperience,
       requiredMatches |-> requiredMatches,
       preferredMatches |-> preferredMatches,
       missingRequired |-> missingRequired,
       requiredRatio |-> requiredRatio,
       preferredRatio |-> preferredRatio,
       baseScore |-> baseScore]

\* formatPenalty, shortPenalty, nameBias and the adjusted score before the
\* minimum-years penalty, added to the values r computed so far.
Penalized(in, r) ==
  LET formatPenalty == formatProfiles[in.formatStyle].penalty
      shortPenalty == IF r.isShort THEN RMul(r.baseScore, Rat(22, 100)) ELSE Num(0)
      nameBias == nameBiasProfiles[in.selectedName]
  IN  [formatPenalty |-> formatPenalty,
       shortPenalty |-> shortPenalty,
       nameBias |-> nameBias,
       biasedScore |-> biased(r.baseScore, nameBias, formatPenalty, shortPenalty)] @@ r

\* The minimum-years penalty with <= in place of <.
AdjustedInclusive(in, r) ==
  [adjustedScore |->
     IF r.yearsExperience <= in.minYears
       THEN RSub(r.biasedScore, Num(10)) ELSE r.biasedScore] @@ r

\* if (yearsExperience < minYears) adjustedScore -= 10
Adjusted(in, r) ==
  [adjustedScore |->
     IF r.yearsExperience < in.minYears
       THEN RSub(r.biasedScore, Num(10)) ELSE r.biasedScore] @@ r

\* const finalScore = clamp(adjustedScore)
Clamped(r) == [finalScore |-> clamp(r.adjustedScore)] @@ r

\* const decision = finalScore >= passThreshold ? 'Pass' : 'Reject'
Decided(in, r) == [decision |-> decide(r.finalScore, in.passThreshold)] @@ r

\* demographicStats with the minimum-years test in place of isShort.
CohortsByExperience(in, r) ==
  [demographicStats |->
     [d \in 1..Len(demographicBase) |->
        LET demo == demographicBase[d]
            fairnessDrag ==
              RAdd(RAdd(RMul(Num(r.formatPenalty), Rat(8, 10)),
                        IF in.keywordStrictness > 70
                          THEN RMul(RMul(Num(in.keywordStrictness - 70), demo.sensitivity),
                                    Rat(2, 10))
                          ELSE Num(0)),
                   IF r.yearsExperience < in.minYears THEN RMul(Num(6), demo.sensitivity) ELSE Num(0))
            adjusted ==
              clamp(RAdd(RSub(Num(demo.base), fairnessDrag),
                         RMul(Num(100 - in.passThreshold), Rat(2, 10))))
        IN  [label |-> demo.label, base |-> demo.base,
             sensitivity |-> demo.sensitivity, adjusted |-> adjusted]]] @@ r

\* demographicStats with the strictness term counted from 60, the offset of
\* strictnessModifier, in place of 70.
CohortsFromSixty(in, r) ==
  [demographicStats |->
     [d \in 1..Len(demographicBase) |->
        LET demo == demographicBase[d]
            fairnessDrag ==
              RAdd(RAdd(RMul(Num(r.formatPenalty), Rat(8, 10)),
                        IF in.keywordStrictness > 60
                          THEN RMul(RMul(Num(in.keywordStrictness - 60), demo.sensitivity),
                                    Rat(2, 10))
                          ELSE Num(0)),
                   IF r.isShort THEN RMul(Num(6), demo.sensitivity) ELSE Num(0))
            adjusted ==
              clamp(RAdd(RSub(Num(demo.base), fairnessDrag),
                         RMul(Num(100 - in.passThreshold), Rat(2, 10))))
        IN  [label |-> demo.label, base |-> demo.base,
             sensitivity |-> demo.sensitivity, adjusted |-> adjusted]]] @@ r

\* demographicStats with the strictness term taken off the drag, not added.
CohortsEasedByStrictness(in, r) ==
  [demographicStats |->
     [d \in 1..Len(demographicBase) |->
        LET demo == demographicBase[d]
            fairnessDrag ==
              RAdd(RSub(RMul(Num(r.formatPenalty), Rat(8, 10)),
                        IF in.keywordStrictness > 70
                          THEN RMul(RMul(Num(in.keywordStrictness - 70), demo.sensitivity),
                                    Rat(2, 10))
                          ELSE Num(0)),
                   IF r.isShort THEN RMul(Num(6), demo.sensitivity) ELSE Num(0))
            adjusted ==
              clamp(RAdd(RSub(Num(demo.base), fairnessDrag),
                         RMul(Num(100 - in.passThreshold), Rat(2, 10))))
        IN  [label |-> demo.label, base |-> demo.base,
             sensitivity |-> demo.sensitivity, adjusted |-> adjusted]]] @@ r

\* const demographicStats = demographicBase.map(...)
Cohorts(in, r) ==
  [demographicStats |->
     [d \in 1..Len(demographicBase) |->
        LET demo == demographicBase[d]
            fairnessDrag ==
              RAdd(RAdd(RMul(Num(r.formatPenalty), Rat(8, 10)),
                        IF in.keywordStrictness > 70
                          THEN RMul(RMul(Num(in.keywordStrictness - 70), demo.sensitivity),
                                    Rat(2, 10))
                          ELSE Num(0)),
                   IF r.isShort THEN RMul(Num(6), demo.sensitivity) ELSE Num(0))
            adjusted ==
              clamp(RAdd(RSub(Num(demo.base), fairnessDrag),
                         RMul(Num(100 - in.passThreshold), Rat(2, 10))))
        IN  [label |-> demo.label, base |-> demo.base,
             sensitivity |-> demo.sensitivity, adjusted |-> adjusted]]] @@ r

\* The body of App from sectionWeightFactor to demographicStats, for the state
\* `in`, the memoized values `memo` and the three filtered keyword lists.
Scored(in, memo, requiredMatches, preferredMatches, missingRequired) ==
  Cohorts(in,
    Decided(in,
      Clamped(
        Adjusted(in,
          Penalized(in,
            Based(in, memo, requiredMatches, preferredMatches, missingRequired))))))

\* The body of App from lowerResume to demographicStats, for the state `in`,
\* the memoized values `memo` and the facts of the resume text.
Compose(in, memo, facts) ==
  Scored(in, memo,
         FilterFound(memo.requiredKeywords, in, facts),
         FilterFound(memo.preferredKeywords, in, facts),
         FilterMissing(memo.requiredKeywords, in, facts))

\* Math.round of a number: the nearest integer, halves rounding up.
MathRound(x) == (2 * x[1] + x[2]) \div (2 * x[2])

\* nameComparisons with the minimum-years penalty of the render taken off too.
nameComparisonsWithYearsPenalty(r) ==
  [name \in Names |->
     MathRound(clamp(RSub(RSub(RSub(RMul(r.baseScore, nameBiasProfiles[name]),
                                    Num(r.formatPenalty)),
                               r.shortPenalty),
                          RSub(r.biasedScore, r.adjustedScore))))]

\* The useMemo of nameComparisons, computed from the values of the render r.
nameComparisonsOf(r) ==
  [name \in Names |->
     MathRound(clamp(RSub(RSub(RMul(r.baseScore, nameBiasProfiles[name]),
                               Num(r.formatPenalty)),
                          r.shortPenalty)))]

\* The render r with the name comparisons computed.
Compared(r) == [nameComparisons |-> nameComparisonsOf(r)] @@ r

\* The render r with the name comparisons of the previous render `old` unless
\* a dependency of their useMemo has changed.
Recompared(r, old) ==
  LET same == /\ r.baseScore = old.baseScore
              /\ r.formatPenalty = old.formatPenalty
              /\ r.shortPenalty = old.shortPenalty
  IN  [nameComparisons |-> IF same THEN old.nameComparisons ELSE nameComparisonsOf(r)] @@ r

\* The first render, given the facts of the resume text.
MountWith(in, facts) == Compared(Compose(in, Memoized(in, facts), facts))

\* A later render, given the facts of the resume text.
RenderWith(in, was, old, facts) ==
  Recompared(Compose(in, Remembered(in, was, old, facts), facts), old)

\* The first render of the component.
Mount(in) == MountWith(in, TextFacts[in.resumeText])

\* A render after a state change: the previous state is `was`, the previous
\* render `old`.
Render(in, was, old) == RenderWith(in, was, old, TextFacts[in.resumeText])
\* ------------------------------------------------------------------------
\* The state machine
\* ------------------------------------------------------------------------

\* The most uploads started in one run.
MaxUploads == 2

VARIABLES
  resumeText,         \* useState(defaultResume)
  selectedName,       \* useState('John')
  uploadMessage,      \* useState(null)
  keywordStrictness,  \* useState(70)
  sectionWeights,     \* useState({education: 20, experience: 50, skills: 30})
  minYears,           \* useState(3)
  requiredInput,      \* useState('React, JavaScript, Python')
  preferredInput,     \* useState('TypeScript, Node.js, Leadership, Agile Development')
  formatStyle,        \* useState('plain')
  passThreshold,      \* useState(70)
  uploads,            \* the uploads started so far, each with the await it is at
  render              \* the values of the component's latest render

vars ==
  <<resumeText, selectedName, uploadMessage, keywordStrictness, sectionWeights, minYears,
    requiredInput, preferredInput, formatStyle, passThreshold, uploads, render>>

\* The component's state as one value.
State ==
  [resumeText |-> resumeText,
   selectedName |-> selectedName,
   uploadMessage |-> uploadMessage,
   keywordStrictness |-> keywordStrictness,
   sectionWeights |-> sectionWeights,
   minYears |-> minYears,
   requiredInput |-> requiredInput,
   preferredInput |-> preferredInput,
   formatStyle |-> formatStyle,
   passThreshold |-> passThreshold]

\* The state after construction and the first render.
Init ==
  /\ resumeText = defaultResume
  /\ selectedName = "John"
  /\ uploadMessage = null
  /\ keywordStrictness = 70
  /\ sectionWeights = [education |-> 20, experience |-> 50, skills |-> 30]
  /\ minYears = 3
  /\ requiredInput = initialRequiredInput
  /\ preferredInput = initialPreferredInput
  /\ formatStyle = "plain"
  /\ passThreshold = 70
  /\ uploads = <<>>
  /\ render = Mount(State)

\* A state setter is called with the state `new`: React stores it and renders
\* the component again before the next event is handled.
SetState(new) ==
  /\ resumeText' = new.resumeText
  /\ selectedName' = new.selectedName
  /\ uploadMessage' = new.uploadMessage
  /\ keywordStrictness' = new.keywordStrictness
  /\ sectionWeights' = new.sectionWeights
  /\ minYears' = new.minYears
  /\ requiredInput' = new.requiredInput
  /\ preferredInput' = new.preferredInput
  /\ formatStyle' = new.formatStyle
  /\ passThreshold' = new.passThreshold
  /\ render' = Render(new, State, render)

\* No state setter is called: nothing is rendered.
NoRender ==
  UNCHANGED <<resumeText, selectedName, uploadMessage, keywordStrictness, sectionWeights,
              minYears, requiredInput, preferredInput, formatStyle, passThreshold, render>>

\* <textarea onChange={(e) => setResumeText(e.target.value)}>
typeResume(text) ==
  /\ SetState([State EXCEPT !.resumeText = text])
  /\ UNCHANGED uploads

\* const swapSample = (sample) => { setResumeText(sample); }
swapSample(sample) ==
  /\ SetState([State EXCEPT !.resumeText = sample])
  /\ UNCHANGED uploads

\* onClick={() => setSelectedName(name)}
selectName(name) ==
  /\ SetState([State EXCEPT !.selectedName = name])
  /\ UNCHANGED uploads

\* onChange={(e) => setKeywordStrictness(Number(e.target.value))}
changeStrictness(value) ==
  /\ SetState([State EXCEPT !.keywordStrictness = value])
  /\ UNCHANGED uploads

\* onChange={(e) => setSectionWeights((prev) => ({...prev, [section]: Number(e.target.value)}))}
changeSectionWeight(section, value) ==
  /\ SetState([State EXCEPT !.sectionWeights = [sectionWeights EXCEPT ![section] = value]])
  /\ UNCHANGED uploads

\* onChange={(e) => setMinYears(Number(e.target.value))}
changeMinYears(value) ==
  /\ SetState([State EXCEPT !.minYears = value])
  /\ UNCHANGED uploads

\* onChange={(e) => setRequiredInput(e.target.value)}
changeRequiredInput(value) ==
  /\ SetState([State EXCEPT !.requiredInput = value])
  /\ UNCHANGED uploads

\* onChange={(e) => setPreferredInput(e.target.value)}
changePreferredInput(value) ==
  /\ SetState([State EXCEPT !.preferredInput = value])
  /\ UNCHANGED uploads

\* onClick={() => setFormatStyle(style)}
chooseFormat(style) ==
  /\ SetState([State EXCEPT !.formatStyle = style])
  /\ UNCHANGED uploads

\* onChange={(e) => setPassThreshold(Number(e.target.value))}
changePassThreshold(value) ==
  /\ SetState([State EXCEPT !.passThreshold = value])
  /\ UNCHANGED uploads

\* String.prototype.endsWith
endsWith(s, suffix) == Len(suffix) <= Len(s) /\ MatchAt(s, suffix, Len(s) - Len(suffix))

\* file.type === 'application/pdf' || file.name.toLowerCase().endsWith('.pdf')
IsPdf(file) == file.type = "application/pdf" \/ endsWith(toLowerCase(file.name), sDotPdf)

\* The awaits of parsePdfFile at which an upload can be suspended.
PdfAwaits == {"arrayBuffer", "getDocument", "getPage", "getTextContent"}

\* handleUpload for a chosen file.  A PDF goes to parsePdfFile, which sets the
\* message and suspends at file.arrayBuffer(); any other file is handed to a
\* FileReader.  startedWith records the resume text at this moment.
handleUpload(file) ==
  /\ Len(uploads) < MaxUploads
  /\ IF IsPdf(file)
       THEN /\ uploads' = Append(uploads, [file |-> file, at |-> "arrayBuffer", pageNum |-> 0,
                                           pages |-> <<>>, startedWith |-> resumeText])
            /\ SetState([State EXCEPT !.uploadMessage = msgParsing])
       ELSE /\ uploads' = Append(uploads, [file |-> file, at |-> "readAsText", pageNum |-> 0,
                                           pages |-> <<>>, startedWith |-> resumeText])
            /\ NoRender

\* The end of parsePdfFile's try block emptying the editor instead of showing
\* the extracted text.
finishClearing(pages) == SetState([State EXCEPT !.resumeText = <<>>, !.uploadMessage = msgParsed])

\* const merged = pages.join('\n'); setResumeText(merged); setUploadMessage('PDF parsed ...')
finish(pages) ==
  SetState([State EXCEPT !.resumeText = MergePages(pages), !.uploadMessage = msgParsed])

\* await file.arrayBuffer() resolves.
arrayBufferRead(i) ==
  /\ uploads[i].at = "arrayBuffer"
  /\ uploads' = [uploads EXCEPT ![i].at = "getDocument"]
  /\ NoRender

\* await getDocument({ data }).promise resolves; the page loop starts at 1.
documentOpened(i) ==
  /\ uploads[i].at = "getDocument"
  /\ IF 1 <= Len(uploads[i].file.pages)
       THEN /\ uploads' = [uploads EXCEPT ![i].at = "getPage", ![i].pageNum = 1]
            /\ NoRender
       ELSE /\ uploads' = [uploads EXCEPT ![i].at = "done", ![i].pageNum = 1]
            /\ finish(uploads[i].pages)

\* await pdf.getPage(pageNum) resolves.
pageLoaded(i) ==
  /\ uploads[i].at = "getPage"
  /\ uploads' = [uploads EXCEPT ![i].at = "getTextContent"]
  /\ NoRender

\* await page.getTextContent() resolves: the page's text is pushed, and the
\* loop goes on to the next page or ends.
textContentRead(i) ==
  /\ uploads[i].at = "getTextContent"
  /\ LET u == uploads[i]
         pages == Append(u.pages, PageText(u.file.pages[u.pageNum]))
     IN  IF u.pageNum + 1 <= Len(u.file.pages)
           THEN /\ uploads' = [uploads EXCEPT ![i].at = "getPage",
                                              ![i].pageNum = u.pageNum + 1,
                                              ![i].pages = pages]
                /\ NoRender
           ELSE /\ uploads' = [uploads EXCEPT ![i].at = "done",
                                              ![i].pageNum = u.pageNum + 1,
                                              ![i].pages = pages]
                /\ finish(pages)

\* The catch block that also empties the editor.
failClearing(message) == SetState([State EXCEPT !.resumeText = <<>>, !.uploadMessage = message])

\* A catch block that swallows the error and sets no message.
failSilently(message) == NoRender

\* catch (error) { setUploadMessage('Could not parse PDF. ...') }
fail(message) == SetState([State EXCEPT !.uploadMessage = message])

\* Any of the awaits of parsePdfFile rejects.
extractionFailed(i) ==
  /\ uploads[i].at \in PdfAwaits
  /\ uploads' = [uploads EXCEPT ![i].at = "failed"]
  /\ fail(msgFailed)

\* reader.onload: a text file has been read.
readerLoaded(i) ==
  /\ uploads[i].at = "readAsText"
  /\ uploads' = [uploads EXCEPT ![i].at = "done"]
  /\ SetState([State EXCEPT !.resumeText = uploads[i].file.text,
                            !.uploadMessage = msgLoaded])

\* The FileReader fails: it has no onerror handler, so nothing happens.
readerFailed(i) ==
  /\ uploads[i].at = "readAsText"
  /\ uploads' = [uploads EXCEPT ![i].at = "error"]
  /\ NoRender

\* The events of the score controls: every handler that runs to completion
\* within its event.
Next ==
  \/ \E text \in ScoredTexts : typeResume(text)
  \/ \E sample \in Samples : swapSample(sample)
  \/ \E name \in Names : selectName(name)
  \/ \E value \in ScoredStrictnessValues : changeStrictness(value)
  \/ \E entry \in WeightEntries : changeSectionWeight(entry[1], entry[2])
  \/ \E value \in MinYearsValues : changeMinYears(value)
  \/ \E value \in ScoredRequiredInputs : changeRequiredInput(value)
  \/ \E value \in PreferredInputs : changePreferredInput(value)
  \/ \E style \in FormatStyles : chooseFormat(style)
  \/ \E value \in PassThresholdValues : changePassThreshold(value)

Spec == Init /\ [][Next]_vars

\* The events of keyword matching and experience estimation: the resume text,
\* the keyword fields and the strictness, over all the texts.
NextMatch ==
  \/ \E text \in TypedTexts : typeResume(text)
  \/ \E sample \in Samples : swapSample(sample)
  \/ \E value \in StrictnessValues : changeStrictness(value)
  \/ \E value \in KeywordInputs : changeRequiredInput(value)
  \/ \E value \in PreferredInputs : changePreferredInput(value)

SpecMatch == Init /\ [][NextMatch]_vars

\* The events of uploading: the uploads and their awaits, next to typing and
\* the sample buttons.
NextUpload ==
  \/ \E file \in Files : handleUpload(file)
  \/ \E i \in DOMAIN uploads :
       \/ arrayBufferRead(i)
       \/ documentOpened(i)
       \/ pageLoaded(i)
       \/ textContentRead(i)
       \/ extractionFailed(i)
       \/ readerLoaded(i)
       \/ readerFailed(i)
  \/ \E text \in UploadTypedTexts : typeResume(text)
  \/ \E sample \in Samples : swapSample(sample)

SpecUpload == Init /\ [][NextUpload]_vars

\* Upload i, suspended at an await of parsePdfFile, leaves that await: the
\* awaited promise has rejected (the catch block runs and the upload has
\* failed) or resolved (the upload is at a later await or done).  Among the
\* steps of NextUpload these are the steps arrayBufferRead, documentOpened,
\* pageLoaded, textContentRead and extractionFailed of upload i.
leavesAwait(i) ==
  /\ i \in DOMAIN uploads
  /\ uploads[i].at \in PdfAwaits
  /\ \/ uploads' = [uploads EXCEPT ![i].at = "failed"]
     \/ uploads'[i].at \notin {uploads[i].at, "failed"}

\* Uploading where every promise parsePdfFile awaits settles: the event loop
\* then resumes the function, so no started extraction stays suspended.
SpecUploadFair ==
  SpecUpload /\ \A i \in 1..MaxUploads : WF_uploads(leavesAwait(i))
\* ------------------------------------------------------------------------
\* Properties of the score (specification Spec)
\* ------------------------------------------------------------------------

\* C1: after any sequence of input changes the final score is a number in the
\* closed range [0, 100].
FinalScoreInRange ==
  /\ render.finalScore \in Int \X (Nat \ {0})
  /\ render.finalScore[1] >= 0
  /\ render.finalScore[1] <= 100 * render.finalScore[2]

\* A state in which the score before clamping is negative and the final score
\* is 0.
FinalScoreClampedAtZero ==
  /\ render.adjustedScore[1] < 0
  /\ render.finalScore = Num(0)

\* C2: the adjusted pass rate of every one of the four cohorts lies in
\* [0, 100], whatever the format style, strictness, pass threshold and resume
\* length.
CohortRatesInRange ==
  /\ Len(render.demographicStats) = 4
  /\ \A d \in DOMAIN render.demographicStats :
       LET adjusted == render.demographicStats[d].adjusted
       IN  /\ adjusted[2] > 0
           /\ adjusted[1] >= 0
           /\ adjusted[1] <= 100 * adjusted[2]

\* A state in which the drag on a cohort exceeds its base rate, so that only
\* the clamp keeps its rate at 0: the pdf format, strictness 100, threshold 90.
CohortRateClampedAtZero ==
  /\ formatStyle = "pdf"
  /\ keywordStrictness = 100
  /\ passThreshold = 90
  /\ \E d \in DOMAIN render.demographicStats :
       /\ render.demographicStats[d].base = 9
       /\ render.demographicStats[d].adjusted = Num(0)

\* C3: the decision is Pass exactly when finalScore >= passThreshold and no
\* knockout phrase is a case-insensitive substring of the resume text, and it
\* is Reject in every other case.  The component configures no knockout
\* phrase, so the set of phrases is empty.
DecisionIffThresholdMet ==
  LET knockoutPhrases == {}
      knockedOut ==
        \E phrase \in knockoutPhrases :
          includes(toLowerCase(resumeText), toLowerCase(phrase))
      meets == render.finalScore[1] >= passThreshold * render.finalScore[2]
  IN  /\ render.decision \in {"Pass", "Reject"}
      /\ render.decision = "Pass" <=> (meets /\ ~knockedOut)

\* A state in which the final score equals the threshold and the decision is
\* Pass.
PassExactlyAtThreshold ==
  /\ render.finalScore = Num(passThreshold)
  /\ render.decision = "Pass"

\* C8: requiredRatio is exactly 1 when the parsed required list is empty (an
\* input of commas and whitespace included), preferredRatio is exactly 0.7
\* when the parsed preferred list is empty, and otherwise each ratio is the
\* number of found keywords of the list divided by the list's length.
RatiosDefaultOnEmptyLists ==
  LET quotient(matches, keywords) ==
        /\ Len(keywords) > 0
        /\ Len(matches) <= Len(keywords)
      equals(x, n, d) == x[1] * d = n * x[2]
  IN  /\ requiredInput = kwBlank => render.requiredKeywords = <<>>
      /\ preferredInput = kwBlank => render.preferredKeywords = <<>>
      /\ IF render.requiredKeywords = <<>>
           THEN render.requiredRatio = <<1, 1>>
           ELSE /\ quotient(render.requiredMatches, render.requiredKeywords)
                /\ equals(render.requiredRatio, Len(render.requiredMatches),
                          Len(render.requiredKeywords))
      /\ IF render.preferredKeywords = <<>>
           THEN render.preferredRatio = <<7, 10>>
           ELSE /\ quotient(render.preferredMatches, render.preferredKeywords)
                /\ equals(render.preferredRatio, Len(render.preferredMatches),
                          Len(render.preferredKeywords))

\* A state in which both fields hold only commas and whitespace and the two
\* ratios are their defaults.
BothListsEmpty ==
  /\ requiredInput = kwBlank
  /\ preferredInput = kwBlank
  /\ render.requiredRatio = <<1, 1>>
  /\ render.preferredRatio = <<7, 10>>

\* The bias-adjusted score of a render: baseScore * nameBias, recovered from
\* the score before the minimum-years penalty by adding the two penalties back.
biasProduct(r) == RAdd(RAdd(r.biasedScore, Num(r.formatPenalty)), r.shortPenalty)

\* The minimum-years penalty a render subtracted.
minYearsPenalty(r) == RSub(r.biasedScore, r.adjustedScore)

\* C9: with the resume text and every policy knob fixed, a change of the
\* identity label changes the score before clamping only through the product
\* baseScore * nameBias: the product under the 0.11 label is 0.11 times the
\* one under the 1.0 label, and the format, short-resume and minimum-years
\* penalties are the same for both labels.
LabelActsThroughProductOnly ==
  [][selectedName' # selectedName =>
       /\ render'.baseScore = render.baseScore
       /\ render'.formatPenalty = render.formatPenalty
       /\ render'.shortPenalty = render.shortPenalty
       /\ minYearsPenalty(render') = minYearsPenalty(render)
       /\ biasProduct(render') = RMul(render.baseScore, nameBiasProfiles[selectedName'])
       /\ (selectedName = "John" /\ selectedName' = "Demetrius") =>
            biasProduct(render') = RMul(Rat(11, 100), biasProduct(render))
       /\ (selectedName = "Demetrius" /\ selectedName' = "John") =>
            biasProduct(render) = RMul(Rat(11, 100), biasProduct(render'))]_vars

\* A state under the 0.11 label in which all three penalties are subtracted.
BiasedWithAllPenalties ==
  /\ selectedName = "Demetrius"
  /\ render.nameBias = Rat(11, 100)
  /\ render.formatPenalty > 0
  /\ RLess(Num(0), render.shortPenalty)
  /\ minYearsPenalty(render) = Num(10)
  /\ RLess(Num(0), render.baseScore)

\* ------------------------------------------------------------------------
\* Properties of keyword matching and of the experience estimate
\* (specification SpecMatch)
\* ------------------------------------------------------------------------

\* C4: at strictness >= 70 a keyword is found only when it occurs in the
\* resume text as a whole word, never merely as a prefix or substring of a
\* longer word: "react" is found in "I used React." and is not found in
\* "I used reaction timing.".
StrictFindsWholeWordsOnly ==
  LET lowerResume == toLowerCase(resumeText)
      found(keyword) ==
        \E i \in DOMAIN render.requiredMatches : render.requiredMatches[i] = keyword
      asWholeWord(k) ==
        \E p \in 0..(Len(lowerResume) - Len(k)) :
          /\ MatchAt(lowerResume, k, p)
          /\ (p = 0 \/ ~IsWordChar(lowerResume[p]))
          /\ (p + Len(k) = Len(lowerResume) \/ ~IsWordChar(lowerResume[p + Len(k) + 1]))
  IN  keywordStrictness >= 70 =>
        /\ \A i \in DOMAIN render.requiredMatches :
             asWholeWord(toLowerCase(trim(render.requiredMatches[i])))
        /\ (resumeText = txtReact /\ requiredInput = initialRequiredInput) =>
             found(splitKeywords(initialRequiredInput)[1])
        /\ (resumeText = txtReaction /\ requiredInput = initialRequiredInput) =>
             ~found(splitKeywords(initialRequiredInput)[1])

YearsIsLargestMentionElseFallback ==
  LET text == resumeText
      n == Len(text)
      isMention(i, j) ==
        /\ \A k \in i..j : IsDigit(text[k])
        /\ \E p \in {j, j + 1} :
             /\ p = j \/ (p <= n /\ text[p] = 43)
             /\ \E q \in (p + 1)..(n - Len(sYear)) :
                  /\ \A k \in (p + 1)..q : IsSpace(text[k])
                  /\ MatchAt(toLowerCase(text), sYear, q)
      mentioned ==
        UNION {{DigitsValue(SubSeq(text, i, j)) : j \in {jj \in i..n : isMention(i, jj)}} :
                 i \in {ii \in 1..n : IsDigit(text[ii])}}
      rounded == MathRoundDiv(CountWords(text), 120)
  IN  /\ render.yearsExperience =
           IF mentioned # {} THEN CHOOSE v \in mentioned : \A w \in mentioned : w <= v
           ELSE IF rounded > 1 THEN rounded ELSE 1
      /\ resumeText = txtYears => render.yearsExperience = 5
      /\ resumeText = txtLong =>
           /\ CountWords(resumeText) = 240
           /\ render.yearsExperience = 2

\* A state in which the text mentions 5 years and 3 years and the estimate is 5.
LargestOfTwoMentions ==
  /\ resumeText = txtYears
  /\ render.yearsExperience = 5

\* C7: for every resume text, the text "0 years" and the empty text included,
\* the experience estimate is an integer that is at least 1.
YearsAtLeastOne ==
  /\ render.yearsExperience \in Int
  /\ render.yearsExperience >= 1

\* C16: at strictness >= 70 a keyword is found exactly when its form without
\* non-word characters is a token of the lowercased text or the normalized
\* keyword (trimmed and lowercased, its punctuation and blanks kept) occurs in
\* the text between word boundaries; so "Node.js" is found in a text that
\* holds "Node.js".
ExactFindsTokenOrNormalizedPhrase ==
  LET lowerResume == toLowerCase(resumeText)
      among(matches, keyword) == \E i \in DOMAIN matches : matches[i] = keyword
      specified(keyword) ==
        \/ StripNonWord(toLowerCase(trim(keyword))) \in Tokens(lowerResume)
        \/ TestWordBounded(lowerResume, toLowerCase(trim(keyword)))
  IN  keywordStrictness >= 70 =>
        /\ \A i \in DOMAIN render.requiredKeywords :
             among(render.requiredMatches, render.requiredKeywords[i])
               <=> specified(render.requiredKeywords[i])
        /\ \A i \in DOMAIN render.preferredKeywords :
             among(render.preferredMatches, render.preferredKeywords[i])
               <=> specified(render.preferredKeywords[i])

\* C17: the sections hold every non-blank line of the text, trimmed, once and
\* in the order of the text: a line that contains a heading word (experience,
\* education, skills, summary, in any case; the first of these when it
\* contains several) is in the bucket of that name, any other line in the
\* bucket of the last line before it that contains a heading word, or in
\* summary when there is none; blank lines are in no bucket and the bucket
\* "other" stays empty.
SectionsHoldEachLineOnce ==
  LET lines == SplitLines(resumeText)
      kept == SelectSeq([i \in 1..Len(lines) |-> trim(lines[i])], NonEmpty)
      words(line) ==
        {h \in 1..Len(sectionHeadings) :
           includes(toLowerCase(line), sectionHeadings[h].word)}
      headed == {j \in 1..Len(kept) : words(kept[j]) # {}}
      named(j) == sectionHeadings[CHOOSE h \in words(kept[j]) :
                                    \A g \in words(kept[j]) : h <= g].bucket
      bucketOf(i) ==
        LET before == {j \in headed : j <= i}
        IN  IF before = {} THEN "summary"
            ELSE named(CHOOSE j \in before : \A k \in before : k <= j)
      expected(bucket) ==
        LET at == {i \in 1..Len(kept) : bucketOf(i) = bucket}
        IN  [k \in 1..Cardinality(at) |->
               kept[CHOOSE i \in at : Cardinality({j \in at : j <= i}) = k]]
  IN  /\ DOMAIN render.parsedSections =
           {"summary", "experience", "education", "skills", "other"}
      /\ \A bucket \in DOMAIN render.parsedSections :
           render.parsedSections[bucket] = expected(bucket)
      /\ render.parsedSections.other = <<>>
      /\ resumeText = txtSections =>
           /\ render.parsedSections.summary = <<SubSeq(txtSections, 3, 10), SubSeq(txtSections, 63, 69), SubSeq(txtSections, 71, 72)>>
           /\ render.parsedSections.experience = <<SubSeq(txtSections, 16, 34), SubSeq(txtSections, 36, 40)>>
           /\ render.parsedSections.education = <<SubSeq(txtSections, 47, 55), SubSeq(txtSections, 59, 61)>>
           /\ render.parsedSections.skills = <<>>

\* The sections of a text with blank lines, carriage returns, a heading in
\* capitals that also names a second section, and lines under each heading.
SectionsOfMixedText ==
  /\ resumeText = txtSections
  /\ Len(SplitLines(resumeText)) = 9
  /\ render.parsedSections.experience[1] = SubSeq(txtSections, 16, 34)
  /\ Len(render.parsedSections.summary) = 3
  /\ Len(render.parsedSections.education) = 2

\* The render of the current state with the strictness replaced.
underStrictness(strictness) == Mount([State EXCEPT !.keywordStrictness = strictness])

\* C26: matching only loosens as the strictness drops: with the resume text
\* and the keyword fields as they are, every required or preferred keyword
\* found at a strictness >= 70 is also found at every strictness < 70, the
\* keywords made only of non-word characters, such as "++", included.
FoundStrictlyIsFoundLoosely ==
  \A strict, loose \in StrictnessValues :
    (strict >= 70 /\ loose < 70) =>
      /\ \A i \in DOMAIN underStrictness(strict).requiredMatches :
           \E j \in DOMAIN underStrictness(loose).requiredMatches :
             underStrictness(loose).requiredMatches[j]
               = underStrictness(strict).requiredMatches[i]
      /\ \A i \in DOMAIN underStrictness(strict).preferredMatches :
           \E j \in DOMAIN underStrictness(loose).preferredMatches :
             underStrictness(loose).preferredMatches[j]
               = underStrictness(strict).preferredMatches[i]

\* The line, lowercased, contains the heading word of the bucket.
namesHeading(line, bucket) ==
  \E h \in DOMAIN sectionHeadings :
    /\ sectionHeadings[h].bucket = bucket
    /\ includes(toLowerCase(line), sectionHeadings[h].word)

\* The line is one of the lines of the bucket of the latest render.
inBucket(line, bucket) ==
  \E k \in DOMAIN render.parsedSections[bucket] :
    render.parsedSections[bucket][k] = line

\* C28: a line that contains one or more heading words is placed by the fixed
\* precedence experience, education, skills, summary (a line that contains
\* both "education" and "experience" is in the experience bucket) and in no
\* other bucket, and the bucket "other" holds no line.
HeadingsResolvedByPrecedence ==
  /\ render.parsedSections.other = <<>>
  /\ \A i \in DOMAIN SplitLines(resumeText) :
       LET line == trim(SplitLines(resumeText)[i])
           bucket == IF namesHeading(line, "experience") THEN "experience"
                     ELSE IF namesHeading(line, "education") THEN "education"
                     ELSE IF namesHeading(line, "skills") THEN "skills"
                     ELSE "summary"
       IN  (line # <<>> /\ \E b \in DOMAIN render.parsedSections : namesHeading(line, b))
             => /\ inBucket(line, bucket)
                /\ \A b \in DOMAIN render.parsedSections \ {bucket} : ~inBucket(line, b)

\* The text whose lines name two headings each: the line with "Education" and
\* "Experience" opens the experience bucket, the one with "Skills" and
\* "summary" the skills bucket, the one with "summary" and "Education" the
\* education bucket, and nothing is in summary or other.
TwoHeadingsInALine ==
  /\ resumeText = txtHeadings
  /\ render.parsedSections.experience = <<SubSeq(txtHeadings, 1, 24), SubSeq(txtHeadings, 26, 29)>>
  /\ Len(render.parsedSections.skills) = 2
  /\ Len(render.parsedSections.education) = 2
  /\ render.parsedSections.summary = <<>>
  /\ render.parsedSections.other = <<>>

\* ------------------------------------------------------------------------
\* Properties of rendering and of the stored configuration (specification Spec)
\* ------------------------------------------------------------------------

\* C12: after any sequence of input changes every value of the latest render
\* (sections, word count, estimated years, keyword lists, matched and missing
\* keywords, base and final score, decision, cohort rates, comparison scores)
\* is what the first render of a component in the current state computes: no
\* memoized value is one of an earlier input.
RenderIsOfCurrentInputs == render = Mount(State)

\* A state after the text, a keyword field and two knobs have changed, in
\* which the render holds the values of the new text and the new field.
RenderedAfterSeveralChanges ==
  /\ resumeText = txt180
  /\ requiredInput = kwBlank
  /\ keywordStrictness = 100
  /\ minYears = 0
  /\ render.wordCount = 180
  /\ render.yearsExperience = 2
  /\ render.requiredKeywords = <<>>
  /\ render.parsedSections.summary = <<txt180>>

\* C13: every stored section weight is a number within 0..100, the strictness
\* within 30..100, the minimum years within 0..15 and the pass threshold
\* within 40..90, whatever was entered.
StoredConfigurationInRange ==
  /\ \A section \in Sections : sectionWeights[section] \in 0..100
  /\ keywordStrictness \in 30..100
  /\ minYears \in 0..15
  /\ passThreshold \in 40..90

\* The cohort rates of a render.
cohortRates(r) == [d \in DOMAIN r.demographicStats |-> r.demographicStats[d].adjusted]

\* C14 as stated: whatever the resume text is replaced by, with format style,
\* strictness and pass threshold as they are, every cohort's adjusted rate is
\* the one displayed.
CohortRatesOfPolicyOnly ==
  \A text \in ScoredTexts \cup Samples :
    cohortRates(Mount([State EXCEPT !.resumeText = text])) = cohortRates(render)

\* C14 amended: whatever text of the same shortness (both below 180 words or
\* both not) the resume text is replaced by, with format style, strictness and
\* pass threshold as they are, every cohort's adjusted rate is the one
\* displayed.
CohortRatesOfPolicyAndShortness ==
  \A text \in ScoredTexts \cup Samples :
    LET other == Mount([State EXCEPT !.resumeText = text])
    IN  other.isShort = render.isShort => cohortRates(other) = cohortRates(render)

\* Two short texts with different estimates of experience, one below the
\* minimum years and one not, under a pdf format at strictness 100: the rates
\* displayed for the one are those of the other.
ShortTextsShareRates ==
  LET other == Mount([State EXCEPT !.resumeText = shortResume])
  IN  /\ resumeText = txtSenior
      /\ formatStyle = "pdf"
      /\ keywordStrictness = 100
      /\ render.isShort /\ other.isShort
      /\ other.yearsExperience < minYears
      /\ render.yearsExperience >= minYears
      /\ cohortRates(other) = cohortRates(render)

\* C18: the base score is (requiredRatio * 60 + preferredRatio * 25 +
\* experienceScore + sectionWeightFactor * 15) * strictnessModifier limited to
\* [0, 100], with sectionWeightFactor = (experience * 0.5 + skills * 0.3 +
\* education * 0.2) / 100, strictnessModifier = 1 - (strictness - 60) / 250 and
\* experienceScore = min(100, years / max(1, minYears) * 40), the divisor being
\* 1 at minYears = 0.
BaseScoreIsTheStatedFormula ==
  LET weighted ==
        RDiv(RAdd(RAdd(RMul(Num(sectionWeights.experience), Rat(5, 10)),
                       RMul(Num(sectionWeights.skills), Rat(3, 10))),
                  RMul(Num(sectionWeights.education), Rat(2, 10))),
             Num(100))
      modifier == RSub(Num(1), RDiv(Num(keywordStrictness - 60), Num(250)))
      divisor == IF minYears = 0 THEN 1 ELSE minYears
      perYear == RMul(RDiv(Num(render.yearsExperience), Num(divisor)), Num(40))
      experience == IF RLess(Num(100), perYear) THEN Num(100) ELSE perYear
      total ==
        RMul(RAdd(RAdd(RAdd(RMul(render.requiredRatio, Num(60)),
                            RMul(render.preferredRatio, Num(25))),
                       experience),
                  RMul(weighted, Num(15))),
             modifier)
  IN  render.baseScore =
        IF RLess(total, Num(0)) THEN Num(0)
        ELSE IF RLess(Num(100), total) THEN Num(100)
        ELSE total

\* A state at minYears = 0 whose base score lies strictly between the limits:
\* the default resume (2 years estimated, experience score 80) at strictness
\* 100.
BaseScoreAtZeroMinYears ==
  /\ minYears = 0
  /\ keywordStrictness = 100
  /\ resumeText = defaultResume
  /\ render.yearsExperience = 2
  /\ RLess(Num(0), render.baseScore)
  /\ RLess(render.baseScore, Num(100))

\* C19: the short-resume penalty is 22% of the base score when the word count
\* of the resume text (its pieces between runs of white space) is below 180
\* and 0 when it is 180 or more.
ShortPenaltyBelow180Words ==
  render.shortPenalty =
    IF CountWords(resumeText) < 180 THEN RMul(render.baseScore, Rat(22, 100)) ELSE Num(0)

\* A text of exactly 180 words with a positive base score and no penalty.
NoPenaltyAt180Words ==
  /\ CountWords(resumeText) = 180
  /\ RLess(Num(0), render.baseScore)
  /\ render.shortPenalty = Num(0)

\* C20: 10 is subtracted from the adjusted score, after the bias multiplier and
\* the format and short-resume penalties, exactly when the estimated years are
\* strictly below the minimum years; nothing is subtracted for experience at
\* estimated years >= minYears, so never at minYears = 0.
TenOffBelowMinYears ==
  LET penalized ==
        RSub(RSub(RMul(render.baseScore, nameBiasProfiles[selectedName]),
                  Num(formatProfiles[formatStyle].penalty)),
             render.shortPenalty)
  IN  /\ render.adjustedScore =
           IF render.yearsExperience < minYears THEN RSub(penalized, Num(10)) ELSE penalized
      /\ minYears = 0 => render.adjustedScore = penalized

\* A state whose estimate equals the minimum years, with a bias multiplier
\* and both penalties in play, and nothing subtracted for experience.
NothingOffAtMinYears ==
  /\ render.yearsExperience = minYears
  /\ minYears = 2
  /\ selectedName = "Demetrius"
  /\ formatStyle = "table"
  /\ render.adjustedScore = render.biasedScore

\* The render of the current state with one input replaced.
underFormat(style) == Mount([State EXCEPT !.formatStyle = style])

\* What the current format takes off the final score: the final score under
\* plain with every other input as it is, less the final score displayed.
lostToFormat == RSub(underFormat("plain").finalScore, render.finalScore)

\* C21: the format penalty is 0 for plain, 8 for table and 12 for pdf, and
\* with every other input as it is the final score under the current format
\* is never above the final score under plain and is below it by at most the
\* current format's penalty.
FormatLowersScoreByAtMostItsPenalty ==
  /\ formatProfiles["plain"].penalty = 0
  /\ formatProfiles["table"].penalty = 8
  /\ formatProfiles["pdf"].penalty = 12
  /\ render.formatPenalty = formatProfiles[formatStyle].penalty
  /\ RLeq(Num(0), lostToFormat)
  /\ RLeq(lostToFormat, Num(formatProfiles[formatStyle].penalty))

\* A non-plain format under which the final score stops at 0, so that it is
\* below the score under plain by less than the format's penalty.
FormatPenaltyCutShortAtZero ==
  /\ formatStyle = "pdf"
  /\ render.finalScore = Num(0)
  /\ RLess(Num(0), underFormat("plain").finalScore)
  /\ RLess(underFormat("plain").finalScore, Num(12))

\* fairnessDrag of cohort d as the claim states it, from the stored inputs.
statedDrag(d) ==
  RAdd(RAdd(RMul(Num(formatProfiles[formatStyle].penalty), Rat(4, 5)),
            IF keywordStrictness > 70
              THEN RMul(RMul(Num(keywordStrictness - 70), demographicBase[d].sensitivity),
                        Rat(1, 5))
              ELSE Num(0)),
       IF render.wordCount < 180 THEN RMul(Num(6), demographicBase[d].sensitivity)
                                 ELSE Num(0))

\* C22: for each cohort the adjusted rate is
\* clamp(baseline - fairnessDrag + (100 - passThreshold) * 0.2), with
\* fairnessDrag = formatPenalty * 0.8 + (strictness - 70) * sensitivity * 0.2
\* if strictness > 70 + 6 * sensitivity if the text is short; at strictness
\* exactly 70 the drag has no strictness term.
CohortRateIsTheStatedFormula ==
  \A d \in DOMAIN render.demographicStats :
    /\ render.demographicStats[d].adjusted =
         clamp(RAdd(RSub(Num(demographicBase[d].base), statedDrag(d)),
                    Rat(100 - passThreshold, 5)))
    /\ keywordStrictness = 70 =>
         statedDrag(d) =
           RAdd(Rat(formatProfiles[formatStyle].penalty * 4, 5),
                IF render.isShort THEN RMul(Num(6), demographicBase[d].sensitivity)
                                  ELSE Num(0))

\* Strictness exactly 70 with a format penalty and a short text in play, and
\* every cohort's rate strictly inside 0..100, so that no limit hides a term.
CohortRatesAtStrictnessSeventy ==
  /\ keywordStrictness = 70
  /\ formatStyle = "pdf"
  /\ render.isShort
  /\ \A d \in DOMAIN render.demographicStats :
       /\ RLess(Num(0), render.demographicStats[d].adjusted)
       /\ RLess(render.demographicStats[d].adjusted, Num(100))

\* The step changes none of the inputs other than strictness, format style
\* and pass threshold.
otherInputsFixed ==
  UNCHANGED <<resumeText, selectedName, sectionWeights, minYears, requiredInput,
              preferredInput>>

\* C24: with all other inputs fixed, a change that raises the pass threshold,
\* raises the strictness or switches to a format with a larger penalty (and
\* lowers none of the three) never increases the adjusted rate of any cohort.
RatesNeverRiseWithPolicy ==
  [][(/\ otherInputsFixed
      /\ passThreshold' >= passThreshold
      /\ keywordStrictness' >= keywordStrictness
      /\ formatProfiles[formatStyle'].penalty >= formatProfiles[formatStyle].penalty)
       => \A d \in DOMAIN render.demographicStats :
            RLeq(render'.demographicStats[d].adjusted,
                 render.demographicStats[d].adjusted)]_vars

\* The render of the current state with the three policy inputs replaced.
underPolicy(strictness, style, threshold) ==
  Mount([State EXCEPT !.keywordStrictness = strictness, !.formatStyle = style,
                      !.passThreshold = threshold])

\* The strictest policy of the sliders and the pdf format, reached with every
\* cohort's rate strictly below its rate under the table format at strictness
\* 70 and threshold 70, and one cohort's rate still above 0.
RatesLoweredByPolicy ==
  /\ passThreshold = 90
  /\ keywordStrictness = 100
  /\ formatStyle = "pdf"
  /\ \A d \in DOMAIN render.demographicStats :
       RLess(render.demographicStats[d].adjusted,
             underPolicy(70, "table", 70).demographicStats[d].adjusted)
  /\ RLess(Num(0), render.demographicStats[1].adjusted)

\* The step raises the strictness to a value above 70 and changes no other
\* input.
strictnessRaised ==
  /\ keywordStrictness' > keywordStrictness
  /\ keywordStrictness' > 70
  /\ otherInputsFixed
  /\ UNCHANGED <<formatStyle, passThreshold>>

\* What the step takes off the adjusted rate of cohort d.
rateDrop(d) ==
  RSub(render.demographicStats[d].adjusted, render'.demographicStats[d].adjusted)

\* C25 as stated: for any two cohorts, and format, pass threshold and resume
\* text fixed, an increase of the strictness to above 70 takes at least as
\* much off the adjusted rate of the cohort with the lower baseline as off
\* that of the cohort with the higher baseline.
LowerBaselineDropsAtLeastAsMuch ==
  [][strictnessRaised =>
       \A a, b \in DOMAIN render.demographicStats :
         demographicBase[a].base < demographicBase[b].base
           => RLeq(rateDrop(b), rateDrop(a))]_vars

\* C25 amended: the same, for a cohort with the lower baseline whose adjusted
\* rate is still above 0 after the increase.
LowerBaselineDropsAtLeastAsMuchAboveZero ==
  [][strictnessRaised =>
       \A a, b \in DOMAIN render.demographicStats :
         (/\ demographicBase[a].base < demographicBase[b].base
          /\ RLess(Num(0), render'.demographicStats[a].adjusted))
           => RLeq(rateDrop(b), rateDrop(a))]_vars

\* Strictness 100 with every cohort's rate above 0, each cohort with a lower
\* baseline having lost strictly more than each with a higher baseline since
\* strictness 70 with the other inputs as they are.
LowerBaselineLostMore ==
  /\ keywordStrictness = 100
  /\ \A d \in DOMAIN render.demographicStats :
       RLess(Num(0), render.demographicStats[d].adjusted)
  /\ \A a, b \in DOMAIN render.demographicStats :
       demographicBase[a].base < demographicBase[b].base
         => RLess(RSub(underPolicy(70, formatStyle, passThreshold).demographicStats[b].adjusted,
                       render.demographicStats[b].adjusted),
                  RSub(underPolicy(70, formatStyle, passThreshold).demographicStats[a].adjusted,
                       render.demographicStats[a].adjusted))

\* clamp(baseScore * biasFactor(name) - formatPenalty - shortPenalty) from the
\* base score and the penalties of the latest render.
statedComparison(name) ==
  clamp(RSub(RSub(RMul(render.baseScore, nameBiasProfiles[name]),
                  Num(formatProfiles[formatStyle].penalty)),
             render.shortPenalty))

\* The comparison score of the selected name less the final score.
aboveFinal == RSub(Num(render.nameComparisons[selectedName]), render.finalScore)

\* The integer n is the number x rounded to the nearest integer, halves up.
isRounded(n, x) ==
  /\ RLeq(Num(2 * n - 1), RMul(Num(2), x))
  /\ RLess(RMul(Num(2), x), Num(2 * n + 1))

\* C23 as stated: for every name the comparison score is
\* clamp(baseScore * biasFactor - formatPenalty - shortPenalty) of the current
\* base score and penalties and lies in 0..100; for the selected name it is
\* the final score when the estimated years are at least the minimum years,
\* and otherwise above the final score by 0 to 10.
ComparisonIsClampedProduct ==
  /\ \A name \in Names :
       /\ Num(render.nameComparisons[name]) = statedComparison(name)
       /\ render.nameComparisons[name] \in 0..100
  /\ render.yearsExperience >= minYears
       => Num(render.nameComparisons[selectedName]) = render.finalScore
  /\ render.yearsExperience < minYears
       => RLeq(Num(0), aboveFinal) /\ RLeq(aboveFinal, Num(10))

\* C23 amended: for every name the comparison score is that clamped value
\* rounded to the nearest integer and lies in 0..100; for the selected name it
\* is the final score rounded to the nearest integer when the estimated years
\* are at least the minimum years, and otherwise differs from the final score
\* by more than -1/2 and at most 10 + 1/2.
ComparisonIsRoundedClampedProduct ==
  /\ \A name \in Names :
       /\ isRounded(render.nameComparisons[name], statedComparison(name))
       /\ render.nameComparisons[name] \in 0..100
  /\ render.yearsExperience >= minYears
       => isRounded(render.nameComparisons[selectedName], render.finalScore)
  /\ render.yearsExperience < minYears
       => RLess(Rat(-1, 2), aboveFinal) /\ RLeq(aboveFinal, Rat(21, 2))

\* Estimated years below the minimum and a clamped value that is no integer:
\* the comparison score of the selected name is that value rounded up and is
\* more than 10 above the final score.
ComparisonRoundedAboveTenMore ==
  /\ render.yearsExperience < minYears
  /\ RLess(statedComparison(selectedName), Num(render.nameComparisons[selectedName]))
  /\ RLess(Num(10), aboveFinal)

\* The render of the current state with the selected name replaced.
underName(name) == Mount([State EXCEPT !.selectedName = name])

\* The final score under the first name is at least that under the second,
\* and the second passing implies the first passing.
scoresNoLower(first, second) ==
  /\ RLeq(Num(0), RSub(underName(first).finalScore, underName(second).finalScore))
  /\ underName(second).decision = "Pass" => underName(first).decision = "Pass"

\* C29: with the resume text and every knob as they are, the final score is
\* ordered by the bias factor of the name, John >= Kenya >= Demetrius, so
\* that Kenya passes whenever Demetrius does and John whenever Kenya does;
\* the score displayed is the one of the selected name.
FinalScoreOrderedByBias ==
  /\ scoresNoLower("John", "Kenya")
  /\ scoresNoLower("Kenya", "Demetrius")
  /\ render.finalScore = underName(selectedName).finalScore
  /\ render.decision = underName(selectedName).decision

\* Kenya is selected and rejected with a final score strictly between those
\* of the two other names; John passes.
OnlyJohnPasses ==
  /\ selectedName = "Kenya"
  /\ render.decision = "Reject"
  /\ underName("John").decision = "Pass"
  /\ RLess(render.finalScore, underName("John").finalScore)
  /\ RLess(underName("Demetrius").finalScore, render.finalScore)

\* ------------------------------------------------------------------------
\* Properties of uploading (specification SpecUpload)
\* ------------------------------------------------------------------------

\* The step taken is the failure of the extraction of upload i.
failsNow(i) == uploads[i].at \in PdfAwaits /\ uploads'[i].at = "failed"

\* C10 as stated: when the extraction of a PDF fails at any step, the resume
\* text is exactly what it was before that upload began, the upload message
\* becomes the failure message, and the extraction is not started again.
FailureRestoresTextOfUploadStart ==
  [][\A i \in DOMAIN uploads :
       failsNow(i) =>
         /\ resumeText' = uploads[i].startedWith
         /\ uploadMessage' = msgFailed
         /\ Len(uploads') = Len(uploads)]_vars

\* C10 amended: when the extraction of a PDF fails at any step, the failure
\* leaves the resume text as it was just before the failure (the text at the
\* start of the upload only if nothing replaced it in between), the upload
\* message becomes the failure message, no upload is started by the failure,
\* and a failed upload never leaves its failed state.
FailureLeavesTextUntouched ==
  [][\A i \in DOMAIN uploads :
       /\ failsNow(i) =>
            /\ resumeText' = resumeText
            /\ render'.finalScore = render.finalScore
            /\ uploadMessage' = msgFailed
            /\ uploads' = [uploads EXCEPT ![i].at = "failed"]
       /\ uploads[i].at = "failed" => uploads'[i] = uploads[i]]_vars

\* A state after a failed extraction: the failure message is shown and the
\* editor holds a text that replaced, while the extraction ran, the one the
\* upload started with.
FailedAfterTextReplaced ==
  \E i \in DOMAIN uploads :
    /\ uploads[i].at = "failed"
    /\ uploadMessage = msgFailed
    /\ resumeText # uploads[i].startedWith
    /\ resumeText # <<>>


\* The text a successfully completed upload of the file puts into the editor.
UploadedText(file) == IF IsPdf(file) THEN ExtractedText(file) ELSE file.text

\* The step taken is the successful completion of upload i.
completesNow(i) == uploads[i].at \notin {"done", "failed", "error"} /\ uploads'[i].at = "done"

\* C11: starting an upload while another is pending cancels or discards
\* nothing, and each successful completion makes the resume text the text of
\* the upload completing then and leaves every other upload as it is; so once
\* two uploads have completed the text is that of the one whose result
\* arrived later, whichever was started first.
LaterResultWins ==
  [][/\ Len(uploads') > Len(uploads) =>
          \A j \in DOMAIN uploads : uploads'[j] = uploads[j]
     /\ \A i \in DOMAIN uploads :
          completesNow(i) =>
            /\ resumeText' = UploadedText(uploads[i].file)
            /\ \A j \in DOMAIN uploads \ {i} : uploads'[j] = uploads[j]]_vars

\* Two uploads of different texts have both completed and the editor holds the
\* text of the one started first, a text no typing or sample button gives: its
\* result arrived after the other's, which was started while it was pending.
FirstStartedArrivedLast ==
  /\ Len(uploads) = 2
  /\ uploads[1].at = "done"
  /\ uploads[2].at = "done"
  /\ UploadedText(uploads[1].file) # UploadedText(uploads[2].file)
  /\ resumeText = UploadedText(uploads[1].file)
  /\ resumeText \notin Samples \cup UploadTypedTexts

\* C27: a text typed or swapped in while the extraction of a PDF is pending
\* is not kept when the extraction succeeds (the resume text becomes the
\* extracted text, whatever replaced the text the upload started with) and
\* stays when the extraction fails.
TextEnteredMeanwhileIsOverwritten ==
  [][\A i \in DOMAIN uploads :
       (IsPdf(uploads[i].file) /\ resumeText # uploads[i].startedWith) =>
         /\ completesNow(i) => resumeText' = ExtractedText(uploads[i].file)
         /\ failsNow(i) => resumeText' = resumeText]_vars

\* The first upload, of a PDF, started with the default resume and the second
\* with the typed text, and the editor holds the text extracted from the
\* first, which no typing or sample button gives: the text was typed while
\* the first extraction was pending and was replaced when it succeeded; the
\* second extraction has failed and left the text in the editor.
TypedTextReplacedByExtraction ==
  /\ Len(uploads) = 2
  /\ IsPdf(uploads[1].file)
  /\ uploads[1].at = "done"
  /\ uploads[1].startedWith = defaultResume
  /\ uploads[2].startedWith = txtSenior
  /\ uploads[2].at = "failed"
  /\ resumeText = ExtractedText(uploads[1].file)
  /\ resumeText \notin Samples \cup UploadTypedTexts

\* The step taken starts the upload of a PDF.
startsPdfNow ==
  /\ Len(uploads') = Len(uploads) + 1
  /\ IsPdf(uploads'[Len(uploads')].file)

\* C30: starting the upload of a PDF sets the upload message to the parsing
\* message and leaves the resume text; a step of that upload changes the
\* resume text only when it completes the extraction, and it then sets the
\* success message; and where every started extraction settles, the parsing
\* message is always followed by the success or the failure message.
ParsingMessageIsReplaced ==
  /\ [][/\ startsPdfNow => (uploadMessage' = msgParsing /\ resumeText' = resumeText)
        /\ \A i \in DOMAIN uploads :
             (IsPdf(uploads[i].file) /\ uploads'[i] # uploads[i]) =>
               IF completesNow(i)
                 THEN /\ resumeText' = ExtractedText(uploads[i].file)
                      /\ uploadMessage' = msgParsed
                 ELSE resumeText' = resumeText]_vars
  /\ (uploadMessage = msgParsing) ~> (uploadMessage \in {msgParsed, msgFailed})

\* Both uploads were of PDFs and have settled, one by success and one by
\* failure, and the message shown is the success message.
ParsedAfterAFailure ==
  /\ Len(uploads) = 2
  /\ \A i \in DOMAIN uploads : IsPdf(uploads[i].file)
  /\ \E i, j \in DOMAIN uploads : uploads[i].at = "done" /\ uploads[j].at = "failed"
  /\ uploadMessage = msgParsed

====
